---- MODULE Spec2Model ----
(***************************************************************************)
(* Model of the BILDIT AI pixel toolkit:                                   *)
(*   - the server beacon dispatcher trackAIBotRequestForPixel with its     *)
(*     helpers (identifyAIBot, toHeaderValue, withNextDefaults,            *)
(*     normalizePixelParams, buildPixelUrlWithParams);                     *)
(*   - the recorder script emitted by buildMouseDetectionInlineScript.     *)
(*   - the client script emitted by buildPixelInlineScript;                *)
(*   - the helpers and components of the library (getModes,                *)
(*     resolveModeWithoutScript, buildPixelSrc, BILDITAIPixel,             *)
(*     NextBILDITAIPixel), each as one call;                               *)
(*   - the standalone mouse-detection script.                              *)
(* JavaScript strings are TLA+ strings; `undefined` in a string position   *)
(* is the reserved string Undefined.  Scalars of a caller's params bag are *)
(* tagged records (JStr, JNum, JBool, JNull, JUndef) so that String(value) *)
(* is a real conversion.                                                   *)
(***************************************************************************)
EXTENDS Integers, Sequences, FiniteSets, TLC

\* ------------------------------------------------------------------------
\* JavaScript values
\* ------------------------------------------------------------------------

Undefined == "<undefined>"

JStr(s) == [str |-> s]
JNum(n) == [num |-> n]
JBool(b) == [bool |-> b]
JNull == [nul |-> "null"]
JUndef == [nul |-> "undefined"]

\* value == null (loose): null or undefined
IsNullish(v) == "nul" \in DOMAIN v

Digit == <<"0", "1", "2", "3", "4", "5", "6", "7", "8", "9">>

RECURSIVE NatToString(_)
NatToString(n) ==
  IF n < 10 THEN Digit[n + 1]
  ELSE NatToString(n \div 10) \o Digit[(n % 10) + 1]

\* String(value) for the scalars a params bag may hold
ToJSString(v) ==
  IF "str" \in DOMAIN v THEN v.str
  ELSE IF "num" \in DOMAIN v
    THEN (IF v.num < 0 THEN "-" \o NatToString(-v.num) ELSE NatToString(v.num))
  ELSE IF "bool" \in DOMAIN v THEN (IF v.bool THEN "true" ELSE "false")
  ELSE v.nul

\* truthiness of a value in a string position: undefined and '' are falsy
Truthy(s) == s # Undefined /\ s # ""

\* a || b
OrElse(a, b) == IF Truthy(a) THEN a ELSE b

\* plain objects with string keys: functions over the set of own keys
EmptyObject == [k \in {} |-> ""]
Get(obj, k) == IF k \in DOMAIN obj THEN obj[k] ELSE Undefined
Put(obj, k, v) == [x \in DOMAIN obj \cup {k} |-> IF x = k THEN v ELSE obj[x]]

\* ------------------------------------------------------------------------
\* Text as characters: String.prototype.toLowerCase and RegExp.test
\* ------------------------------------------------------------------------

LOWER_CASE ==
   "A" :> "a" @@ "B" :> "b" @@ "C" :> "c" @@ "D" :> "d" @@ "E" :> "e" @@
   "F" :> "f" @@ "G" :> "g" @@ "H" :> "h" @@ "I" :> "i" @@ "J" :> "j" @@
   "K" :> "k" @@ "L" :> "l" @@ "M" :> "m" @@ "N" :> "n" @@ "O" :> "o" @@
   "P" :> "p" @@ "Q" :> "q" @@ "R" :> "r" @@ "S" :> "s" @@ "T" :> "t" @@
   "U" :> "u" @@ "V" :> "v" @@ "W" :> "w" @@ "X" :> "x" @@ "Y" :> "y" @@
   "Z" :> "z"

LowerChar(c) == IF c \in DOMAIN LOWER_CASE THEN LOWER_CASE[c] ELSE c

LowerChars(cs) == [i \in 1..Len(cs) |-> LowerChar(cs[i])]

\* the characters of the user-agent strings the model uses
CHARS ==
   "Mozilla/5.0 (ordinary browser)" :>
     <<"M", "o", "z", "i", "l", "l", "a", "/", "5", ".", "0", " ", "(", "o", "r", "d", "i", "n", "a", "r", "y", " ", "b", "r", "o", "w", "s", "e", "r", ")">> @@
   "Mozilla/5.0 (compatible; GPTBot/1.0)" :>
     <<"M", "o", "z", "i", "l", "l", "a", "/", "5", ".", "0", " ", "(", "c", "o", "m", "p", "a", "t", "i", "b", "l", "e", ";", " ", "G", "P", "T", "B", "o", "t", "/", "1", ".", "0", ")">> @@
   "ChatGPT-User GPTBot" :>
     <<"C", "h", "a", "t", "G", "P", "T", "-", "U", "s", "e", "r", " ", "G", "P", "T", "B", "o", "t">> @@
   "LLM ClaudeBot" :>
     <<"L", "L", "M", " ", "C", "l", "a", "u", "d", "e", "B", "o", "t">> @@
   "AI-Agent/2" :>
     <<"A", "I", "-", "A", "g", "e", "n", "t", "/", "2">> @@
   "GoogleOther" :>
     <<"G", "o", "o", "g", "l", "e", "O", "t", "h", "e", "r">> @@
   "" :> <<>>

\* index of the first occurrence of lit in cs at or after position from, 0 if none
IndexOf(cs, lit, from) ==
  LET Scan[i \in from..(Len(cs) + 1)] ==
        IF i + Len(lit) - 1 > Len(cs) THEN 0
        ELSE IF SubSeq(cs, i, i + Len(lit) - 1) = lit THEN i
        ELSE Scan[i + 1]
  IN  IF from > Len(cs) + 1 THEN 0 ELSE Scan[from]

\* one alternative of a pattern: literals in order, `.*` between consecutive
\* ones.  After[k] is the position after the leftmost match of the first k
\* literals, 0 when they do not match.
MatchesAlternative(cs, segments) ==
  LET After[k \in 0..Len(segments)] ==
        IF k = 0 THEN 1
        ELSE IF After[k - 1] = 0 THEN 0
        ELSE LET at == IndexOf(cs, segments[k], After[k - 1])
             IN  IF at = 0 THEN 0 ELSE at + Len(segments[k])
  IN  After[Len(segments)] # 0

\* pattern.test(text) for a case-insensitive pattern given as its alternatives
RegExpTest(pattern, text) ==
  LET cs == LowerChars(CHARS[text])
  IN  \E alt \in pattern : MatchesAlternative(cs, alt)

\* ------------------------------------------------------------------------
\* Bot signature classifier
\* ------------------------------------------------------------------------

AI_BOT_SIGNATURES == <<
  [slug |-> "openai-gptbot", pattern |-> {
        <<<<"g", "p", "t", "b", "o", "t">>>>}],
  [slug |-> "openai-chatgpt", pattern |-> {
        <<<<"c", "h", "a", "t", "g", "p", "t">>>>,
        <<<<"g", "p", "t", "c", "r", "a", "w", "l", "e", "r">>>>,
        <<<<"g", "p", "t", "-", "c", "r", "a", "w", "l", "e", "r">>>>}],
  [slug |-> "anthropic-claudebot", pattern |-> {
        <<<<"a", "n", "t", "h", "r", "o", "p", "i", "c">>>>,
        <<<<"c", "l", "a", "u", "d", "e", "b", "o", "t">>>>}],
  [slug |-> "perplexity", pattern |-> {
        <<<<"p", "e", "r", "p", "l", "e", "x", "i", "t", "y">>>>,
        <<<<"p", "p", "l", "x">>>>}],
  [slug |-> "google-gemini", pattern |-> {
        <<<<"g", "o", "o", "g", "l", "e">>, <<"o", "t", "h", "e", "r">>>>,
        <<<<"g", "o", "o", "g", "l", "e">>, <<"s", "n", "i", "p", "p", "e", "t">>>>,
        <<<<"g", "o", "o", "g", "l", "e">>, <<"i", "n", "s", "p", "e", "c", "t">>>>,
        <<<<"g", "o", "o", "g", "l", "e", "-", "e", "x", "t", "e", "n", "d", "e", "d">>>>,
        <<<<"g", "e", "m", "i", "n", "i">>>>,
        <<<<"a", "i", "a", "g", "e", "n", "t">>>>}],
  [slug |-> "bing-copilot", pattern |-> {
        <<<<"b", "i", "n", "g", "b", "o", "t">>>>,
        <<<<"b", "i", "n", "g", "p", "r", "e", "v", "i", "e", "w">>>>,
        <<<<"b", "i", "n", "g", "-", "a", "i">>>>,
        <<<<"m", "s", "n", "b", "o", "t">>>>,
        <<<<"c", "p", "t", "-", "a", "i">>>>}],
  [slug |-> "meta-ai", pattern |-> {
        <<<<"f", "a", "c", "e", "b", "o", "o", "k", "e", "x", "t", "e", "r", "n", "a", "l", "h", "i", "t">>>>,
        <<<<"f", "a", "c", "e", "b", "o", "t">>>>,
        <<<<"m", "e", "t", "a", "-", "a", "i">>>>}],
  [slug |-> "xai-grok", pattern |-> {
        <<<<"g", "r", "o", "k">>>>,
        <<<<"x", "-", "a", "i">>>>,
        <<<<"x", "b", "o", "t">>>>,
        <<<<"x", "a", "i", "-", "b", "o", "t">>>>}],
  [slug |-> "baidu-ernie", pattern |-> {
        <<<<"b", "a", "i", "d", "u">>>>,
        <<<<"e", "r", "n", "i", "e">>>>}],
  [slug |-> "kimi-moonshot", pattern |-> {
        <<<<"m", "o", "o", "n", "s", "h", "o", "t">>>>,
        <<<<"k", "i", "m", "i">>>>}],
  [slug |-> "deepseek", pattern |-> {
        <<<<"d", "e", "e", "p", "s", "e", "e", "k">>>>,
        <<<<"d", "e", "e", "p", "t", "h", "i", "n", "k", "e", "r">>>>}],
  [slug |-> "generic-ai", pattern |-> {
        <<<<"a", "i", " ", "a", "g", "e", "n", "t">>>>,
        <<<<"a", "i", "\t", "a", "g", "e", "n", "t">>>>,
        <<<<"a", "i", "-", "a", "g", "e", "n", "t">>>>,
        <<<<"a", "i", " ", "c", "r", "a", "w", "l", "e", "r">>>>,
        <<<<"l", "l", "m">>>>,
        <<<<"l", "a", "r", "g", "e", " ", "l", "a", "n", "g", "u", "a", "g", "e">>>>}]
>>

\* the `null` identifyAIBot returns
Null == [null |-> TRUE]

\* identifyAIBot: the for..of loop returns at the first signature that matches
\* identifyAIBot with the loop keeping the last match instead of the first
identifyAIBotLastMatch(agent) ==
  LET Loop[i \in 0..Len(AI_BOT_SIGNATURES)] ==
        IF i = 0 THEN Null
        ELSE IF RegExpTest(AI_BOT_SIGNATURES[i].pattern, agent)
          THEN AI_BOT_SIGNATURES[i]
        ELSE Loop[i - 1]
  IN  IF ~Truthy(agent) THEN Null ELSE Loop[Len(AI_BOT_SIGNATURES)]

identifyAIBot(agent) ==
  LET Loop[i \in 1..(Len(AI_BOT_SIGNATURES) + 1)] ==
        IF i > Len(AI_BOT_SIGNATURES) THEN Null
        ELSE IF RegExpTest(AI_BOT_SIGNATURES[i].pattern, agent)
          THEN AI_BOT_SIGNATURES[i]
        ELSE Loop[i + 1]
  IN  IF ~Truthy(agent) THEN Null ELSE Loop[1]

\* ------------------------------------------------------------------------
\* Header containers
\* ------------------------------------------------------------------------

\* String.prototype.toLowerCase on the header names the model uses
LOWER_NAME ==
   "User-Agent" :> "user-agent" @@ "USER-AGENT" :> "user-agent" @@
   "Referer" :> "referer" @@ "Referrer" :> "referrer" @@
   "X-Forwarded-Proto" :> "x-forwarded-proto" @@
   "X-Forwarded-Host" :> "x-forwarded-host" @@
   "Host" :> "host"

ToLowerCase(name) == IF name \in DOMAIN LOWER_NAME THEN LOWER_NAME[name] ELSE name

\* A header container: shape "none" (undefined/null), "getter" (has get(name);
\* ci tells whether its get ignores case, as the platform Headers class does),
\* "array" (iterable of [key, value] pairs) or "object" (plain map).  entries
\* is the sequence of [key, value] in iteration order; a value is [str |-> s]
\* or [arr |-> <<s1, ...>>].
NoHeaders == [shape |-> "none", ci |-> FALSE, entries |-> <<>>]

\* Array.isArray(value) ? value[0] : value
HeaderValueOf(value) ==
  IF "arr" \in DOMAIN value
    THEN (IF Len(value.arr) = 0 THEN Undefined ELSE value.arr[1])
    ELSE value.str

\* headersLike.get(name) of a getter-style container (null is Undefined here)
GetterGet(headersLike, name) ==
  LET hit == {i \in 1..Len(headersLike.entries) :
                IF headersLike.ci
                  THEN ToLowerCase(headersLike.entries[i].key) = ToLowerCase(name)
                  ELSE headersLike.entries[i].key = name}
  IN  IF hit = {} THEN Undefined
      ELSE HeaderValueOf(headersLike.entries[CHOOSE i \in hit : \A j \in hit : i <= j].value)

\* the loops over pairs / Object.keys: first key whose lower case is target
RECURSIVE FirstEntryFrom(_, _, _)
FirstEntryFrom(entries, target, i) ==
  IF i > Len(entries) THEN Undefined
  ELSE IF ToLowerCase(entries[i].key) = target THEN HeaderValueOf(entries[i].value)
  ELSE FirstEntryFrom(entries, target, i + 1)

toHeaderValue(headersLike, name) ==
  LET target == ToLowerCase(name)
  IN  IF headersLike.shape = "none" THEN Undefined
      ELSE IF headersLike.shape = "getter"
        THEN LET direct == GetterGet(headersLike, name)
                 lower == GetterGet(headersLike, target)
             IN  IF direct # Undefined THEN direct
                 ELSE IF lower # Undefined THEN lower
                 ELSE Undefined
      ELSE FirstEntryFrom(headersLike.entries, target, 1)

\* ------------------------------------------------------------------------
\* Parameters and URLs
\* ------------------------------------------------------------------------

PIXEL_URL == "https://ai-pixel.bildit.co/pixel.gif"
DEFAULT_BOT_EVENT == "next-bot"

\* normalizePixelParams skipping every falsy value, not only null/undefined
normalizePixelParamsTruthyOnly(params) ==
  IF IsNullish(params) THEN EmptyObject
  ELSE LET kept == {k \in DOMAIN params.obj :
                      /\ ~IsNullish(params.obj[k])
                      /\ params.obj[k] \notin {JStr(""), JNum(0), JBool(FALSE)}}
       IN  [k \in kept |-> ToJSString(params.obj[k])]

\* normalizePixelParams: params is JUndef/JNull or [obj |-> map of scalars]
normalizePixelParams(params) ==
  IF IsNullish(params) THEN EmptyObject
  ELSE LET kept == {k \in DOMAIN params.obj : ~IsNullish(params.obj[k])}
       IN  [k \in kept |-> ToJSString(params.obj[k])]

\* withNextDefaults: Object.assign({}, params || {}) and the three defaults
withNextDefaults(params) ==
  LET merged == IF IsNullish(params) THEN EmptyObject ELSE params.obj
      Fill(obj, k, v) ==
        IF k \notin DOMAIN obj \/ IsNullish(obj[k]) THEN Put(obj, k, JStr(v)) ELSE obj
  IN  [obj |-> Fill(Fill(Fill(merged, "component", "nextjs"),
                         "framework", "nextjs"),
                    "source", "bildit-ai-pixel")]

\* new URL(text): the texts that parse, with their origin and query; any other
\* text makes the constructor throw
URL_TABLE ==
   PIXEL_URL :> [origin |-> "https://ai-pixel.bildit.co", search |-> EmptyObject] @@
   "https://ref.example/page" :> [origin |-> "https://ref.example", search |-> EmptyObject] @@
   "https://req.example/path" :> [origin |-> "https://req.example", search |-> EmptyObject]

URLParses(text) == text \in DOMAIN URL_TABLE
URLOrigin(text) == URL_TABLE[text].origin

\* the value a throwing call yields, and the `url` of a result that has none
Threw == [threw |-> TRUE]
NoURL == [nourl |-> TRUE]

\* the loop of ensureSearchParam over Object.entries(params): every entry
\* whose value is not null/undefined is written with url.searchParams.set
SetAll(search, params) ==
  LET written == {k \in DOMAIN params : params[k] # Undefined}
  IN  [k \in DOMAIN search \cup written |->
         IF k \in written THEN params[k] ELSE search[k]]

\* buildPixelUrlWithParams: Threw when new URL(pixelUrl) throws
buildPixelUrlWithParams(pixelUrl, params) ==
  IF ~URLParses(pixelUrl) THEN Threw
  ELSE LET search == SetAll(URL_TABLE[pixelUrl].search, params)
           ref == Get(params, "referer")
           withSite ==
             IF "site" \notin DOMAIN search /\ Truthy(ref) /\ URLParses(ref)
               THEN Put(search, "site", URLOrigin(ref))
               ELSE search
       IN  [base |-> pixelUrl, searchParams |-> withSite]

\* ------------------------------------------------------------------------
\* State
\* ------------------------------------------------------------------------

VARIABLES
  \* one invocation of trackAIBotRequestForPixel
  pc,               \* "idle", "awaiting" (at `await fetch`), "returned", "rejected"
  request,          \* the request argument
  options,          \* the options argument
  fetchAvailable,   \* typeof fetch === 'function'
  userAgent,        \* the resolved user agent
  referer,          \* the resolved referer
  botSignature,     \* identifyAIBot(userAgent)
  url,              \* the URL built by buildPixelUrlWithParams
  fetchCalls,       \* the calls made to fetch, in order
  result,           \* the value the returned promise resolved to
  \* one page running the recorder script
  now,              \* Date.now()
  isRecording,
  startTime,
  lastPing,
  count,
  movements,
  timers,           \* pending setTimeout(stop, DURATION) callbacks
  session,          \* number of recording sessions started so far
  beacons,          \* the beacons sent (image requests), in order
  lastEvent,        \* time of the latest mousemove, click or scroll event, 0 if none
  \* one page running the script of buildPixelInlineScript
  scriptRan,        \* the script element has been executed
  env,              \* what the page gives the script: fetch, Image, a target node
  readyState,       \* document.readyState
  listeners,        \* the listeners the script has registered on document
  mouseTracked,
  attempts,         \* the beacon requests attempted, in order
  appended,         \* number of render images appended to the document
  logged,           \* number of console.error calls of the script
  uncaught,         \* number of exceptions that reached the host page
  moves,            \* number of mousemove events dispatched on the page
  \* one call of a helper of the library
  callee,           \* the function called
  argument,         \* the value passed
  returned,         \* the value returned
  \* one page running the standalone mouse-detection script
  configuration,    \* PIXEL_URL, RECORDING_DURATION, THROTTLE_INTERVAL, MAX_MOVEMENTS
  detector,         \* isRecording, recordingStartTime, lastPixelRequest, ...
  listening,        \* the three listeners are registered
  clock,            \* Date.now() on that page
  timeouts,         \* pending setTimeout(stopRecording) callbacks, by due time
  pixelRequests,    \* the pixel requests sent, in order
  requested,        \* by constant, the value last handed to its setter ({} if none)
  typeErrors        \* number of setter calls that threw

dispatchVars == <<pc, request, options, fetchAvailable, userAgent, referer,
                  botSignature, url, fetchCalls, result>>

recorderVars == <<now, isRecording, startTime, lastPing, count, movements,
                  timers, session, beacons, lastEvent>>

pixelScriptVars == <<scriptRan, env, readyState, listeners, mouseTracked,
                     attempts, appended, logged, uncaught, moves>>

libraryVars == <<callee, argument, returned>>

standaloneVars == <<configuration, detector, listening, clock, timeouts,
                    pixelRequests, requested, typeErrors>>

vars == <<dispatchVars, recorderVars, pixelScriptVars, libraryVars, standaloneVars>>

NoResult == [pending |-> TRUE]

\* ------------------------------------------------------------------------
\* Server beacon dispatcher
\* ------------------------------------------------------------------------

\* lines 226-233 with mode assigned without the test of line 227
FillDefaultsOverwritingMode(params, ua, ref, bot) ==
  LET given == normalizePixelParams(withNextDefaults(params))
      Missing(k) == ~Truthy(Get(given, k))
      filled ==
        {"mode"} \cup {k \in {"event", "ts", "nonce"} : Missing(k)}
          \cup {k \in {"ua"} : Truthy(ua) /\ Missing(k)}
          \cup {k \in {"referer"} : Truthy(ref) /\ Missing(k)}
          \cup {k \in {"bot"} : bot # Null /\ Missing(k)}
      Default(k) ==
        CASE k = "mode" -> "server"
          [] k = "event" -> DEFAULT_BOT_EVENT
          [] k = "ts" -> "<Date.now()>"
          [] k = "nonce" -> "<Math.random()>"
          [] k = "ua" -> ua
          [] k = "referer" -> ref
          [] k = "bot" -> bot.slug
  IN  [k \in DOMAIN given \cup filled |-> IF k \in filled THEN Default(k) ELSE given[k]]

\* lines 226-233 with line 233 writing "unknown" when no signature matched
FillDefaultsUnknownBot(params, ua, ref, bot) ==
  LET given == normalizePixelParams(withNextDefaults(params))
      Missing(k) == ~Truthy(Get(given, k))
      filled ==
        {k \in {"mode", "event", "ts", "nonce", "bot"} : Missing(k)}
          \cup {k \in {"ua"} : Truthy(ua) /\ Missing(k)}
          \cup {k \in {"referer"} : Truthy(ref) /\ Missing(k)}
      Default(k) ==
        CASE k = "mode" -> "server"
          [] k = "event" -> DEFAULT_BOT_EVENT
          [] k = "ts" -> "<Date.now()>"
          [] k = "nonce" -> "<Math.random()>"
          [] k = "ua" -> ua
          [] k = "referer" -> ref
          [] k = "bot" -> IF bot # Null THEN bot.slug ELSE "unknown"
  IN  [k \in DOMAIN given \cup filled |-> IF k \in filled THEN Default(k) ELSE given[k]]

\* lines 226-233: the parameters filled in when the caller left them out.
\* Each line tests and writes its own key only, so the seven steps are
\* independent of one another.
FillDefaults(params, ua, ref, bot) ==
  LET given == normalizePixelParams(withNextDefaults(params))
      Missing(k) == ~Truthy(Get(given, k))
      filled ==
        {k \in {"mode", "event", "ts", "nonce"} : Missing(k)}
          \cup {k \in {"ua"} : Truthy(ua) /\ Missing(k)}
          \cup {k \in {"referer"} : Truthy(ref) /\ Missing(k)}
          \cup {k \in {"bot"} : bot # Null /\ Missing(k)}
      Default(k) ==
        CASE k = "mode" -> "server"
          [] k = "event" -> DEFAULT_BOT_EVENT
          [] k = "ts" -> "<Date.now()>"
          [] k = "nonce" -> "<Math.random()>"
          [] k = "ua" -> ua
          [] k = "referer" -> ref
          [] k = "bot" -> bot.slug
  IN  [k \in DOMAIN given \cup filled |-> IF k \in filled THEN Default(k) ELSE given[k]]

\* lines 235-267 with the Host header consulted before x-forwarded-host
ResolveSiteHostFirst(params, ref, req, headersLike) ==
  IF Truthy(Get(params, "site")) THEN params
  ELSE IF Truthy(ref)
    THEN (IF URLParses(ref) THEN Put(params, "site", URLOrigin(ref)) ELSE params)
  ELSE LET fromUrl ==
             IF req.defined /\ req.url # Undefined /\ URLParses(req.url)
               THEN URLOrigin(req.url) ELSE Undefined
           host == toHeaderValue(headersLike, "host")
           fromHost ==
             IF ~Truthy(fromUrl) /\ Truthy(host)
               THEN "https://" \o host ELSE fromUrl
           xfProto == OrElse(toHeaderValue(headersLike, "x-forwarded-proto"), "https")
           xfHost == toHeaderValue(headersLike, "x-forwarded-host")
           originCandidate ==
             IF ~Truthy(fromHost) /\ Truthy(xfHost)
               THEN xfProto \o "://" \o xfHost ELSE fromHost
       IN  IF Truthy(originCandidate) THEN Put(params, "site", originCandidate)
           ELSE params

\* lines 235-267: the site parameter
ResolveSite(params, ref, req, headersLike) ==
  IF Truthy(Get(params, "site")) THEN params
  ELSE IF Truthy(ref)
    THEN \* new URL(referer) throwing is swallowed by the outer catch
         (IF URLParses(ref) THEN Put(params, "site", URLOrigin(ref)) ELSE params)
  ELSE LET fromUrl ==
             IF req.defined /\ req.url # Undefined /\ URLParses(req.url)
               THEN URLOrigin(req.url) ELSE Undefined
           xfProto == OrElse(toHeaderValue(headersLike, "x-forwarded-proto"), "https")
           xfHost == toHeaderValue(headersLike, "x-forwarded-host")
           fromForwarded ==
             IF ~Truthy(fromUrl) /\ Truthy(xfHost)
               THEN xfProto \o "://" \o xfHost ELSE fromUrl
           host == toHeaderValue(headersLike, "host")
           originCandidate ==
             IF ~Truthy(fromForwarded) /\ Truthy(host)
               THEN "https://" \o host ELSE fromForwarded
       IN  IF Truthy(originCandidate) THEN Put(params, "site", originCandidate)
           ELSE params

\* lines 191-194
HeadersLike(req, opts) ==
  IF opts.headers.shape # "none" THEN opts.headers
  ELSE IF req.defined THEN req.headers
  ELSE NoHeaders

ResolvedUserAgent(req, opts) ==
  OrElse(opts.userAgent, toHeaderValue(HeadersLike(req, opts), "user-agent"))

ResolvedReferer(req, opts) ==
  OrElse(OrElse(opts.referer, toHeaderValue(HeadersLike(req, opts), "referer")),
         toHeaderValue(HeadersLike(req, opts), "referrer"))

\* the classifier's answer for each user agent of the model, tabulated
CLASSIFIED == [ua \in DOMAIN CHARS \cup {Undefined} |-> identifyAIBot(ua)]

SlugOrUndefined(bot) == IF bot # Null THEN bot.slug ELSE Undefined

\* the skip test with requireBotMatch read the wrong way round
SkipsNonBotUnlessRequired(opts, bot) ==
  ~opts.force /\ ~opts.requireBotMatch /\ bot = Null

\* line 213: the skip test
SkipsNonBot(opts, bot) == ~opts.force /\ opts.requireBotMatch /\ bot = Null

\* lines 284-323: the arguments of the fetch call (no fetchOptions given)
FetchInit(ua) ==
  [method |-> "GET", redirect |-> "follow",
   headers |-> IF Truthy(ua)
                 THEN ("User-Agent" :> ua @@ "X-BILDIT-Source" :> "nextjs-server")
                 ELSE ("X-BILDIT-Source" :> "nextjs-server")]

\* The synchronous part of trackAIBotRequestForPixel(req, opts), up to a
\* return, a throw, or the await of fetch.
Invoke(req, opts, canFetch) ==
  \E headersLike \in {HeadersLike(req, opts)} :
  \E ua \in {ResolvedUserAgent(req, opts)} :
  \E ref \in {ResolvedReferer(req, opts)} :
  \E bot \in {CLASSIFIED[ua]} :
    /\ UNCHANGED <<recorderVars, pixelScriptVars, libraryVars, standaloneVars>>
    /\ request' = req
    /\ options' = opts
    /\ fetchAvailable' = canFetch
    /\ userAgent' = ua
    /\ referer' = ref
    /\ botSignature' = bot
    /\ IF SkipsNonBot(opts, bot)
         THEN /\ pc' = "returned"
              /\ result' = [triggered |-> FALSE, skipped |-> TRUE,
                            reason |-> "non-bot-user-agent",
                            userAgent |-> ua, referer |-> ref]
              /\ UNCHANGED <<url, fetchCalls>>
         ELSE \E filled \in {FillDefaults(opts.params, ua, ref, bot)} :
              \E normalizedParams \in {ResolveSite(filled, ref, req, headersLike)} :
              \E built \in {buildPixelUrlWithParams(opts.pixelUrl, normalizedParams)} :
                IF built = Threw
                  THEN /\ pc' = "rejected"
                       /\ UNCHANGED <<url, fetchCalls, result>>
                ELSE IF ~canFetch
                  THEN /\ pc' = "returned"
                       /\ url' = built
                       /\ result' = [triggered |-> FALSE, skipped |-> TRUE,
                                     reason |-> "fetch-unavailable", url |-> built,
                                     userAgent |-> ua, referer |-> ref,
                                     bot |-> SlugOrUndefined(bot)]
                       /\ UNCHANGED fetchCalls
                ELSE /\ pc' = "awaiting"
                     /\ url' = built
                     /\ fetchCalls' = Append(fetchCalls,
                                             [url |-> built, init |-> FetchInit(ua)])
                     /\ UNCHANGED result

\* fetch resolved with a response: lines 335-343
FetchFulfilled(response) ==
  /\ pc = "awaiting"
  /\ pc' = "returned"
  /\ result' = [triggered |-> TRUE, status |-> response.status, ok |-> response.ok,
                url |-> url, userAgent |-> userAgent, referer |-> referer,
                bot |-> SlugOrUndefined(botSignature)]
  /\ UNCHANGED <<request, options, fetchAvailable, userAgent, referer,
                 botSignature, url, fetchCalls>>
  /\ UNCHANGED <<recorderVars, pixelScriptVars, libraryVars, standaloneVars>>

\* the catch block returning a result that is also marked skipped
FetchFailedMarkedSkipped(message) ==
  /\ pc = "awaiting"
  /\ pc' = "returned"
  /\ result' = [triggered |-> FALSE, skipped |-> TRUE, error |-> message,
                url |-> url, userAgent |-> userAgent, referer |-> referer,
                bot |-> SlugOrUndefined(botSignature)]
  /\ UNCHANGED <<request, options, fetchAvailable, userAgent, referer,
                 botSignature, url, fetchCalls>>
  /\ UNCHANGED <<recorderVars, pixelScriptVars, libraryVars, standaloneVars>>

\* fetch threw or its promise rejected: the catch block, lines 344-363
FetchFailed(message) ==
  /\ pc = "awaiting"
  /\ pc' = "returned"
  /\ result' = [triggered |-> FALSE, error |-> message,
                url |-> url, userAgent |-> userAgent, referer |-> referer,
                bot |-> SlugOrUndefined(botSignature)]
  /\ UNCHANGED <<request, options, fetchAvailable, userAgent, referer,
                 botSignature, url, fetchCalls>>
  /\ UNCHANGED <<recorderVars, pixelScriptVars, libraryVars, standaloneVars>>

\* ------------------------------------------------------------------------
\* Inputs of the dispatcher
\* ------------------------------------------------------------------------

\* (userAgent option, User-Agent header)
USER_AGENT_CHOICES ==
  {<<Undefined, ua>> : ua \in DOMAIN CHARS \cup {Undefined}}
    \cup {<<"Mozilla/5.0 (compatible; GPTBot/1.0)", "Mozilla/5.0 (ordinary browser)">>}

\* (referer option, Referer header, Referrer header)
REFERER_CHOICES ==
  {<<Undefined, Undefined, Undefined>>,
   <<Undefined, "https://ref.example/page", Undefined>>,
   <<Undefined, "not a url", Undefined>>,
   <<Undefined, Undefined, "https://ref.example/page">>,
   <<"https://ref.example/page", "not a url", Undefined>>}

\* (X-Forwarded-Proto, X-Forwarded-Host, Host)
FORWARD_CHOICES ==
  {<<Undefined, Undefined, Undefined>>,
   <<"http", Undefined, Undefined>>,
   <<Undefined, "xf.example", Undefined>>,
   <<"http", "xf.example", Undefined>>,
   <<Undefined, Undefined, "host.example">>,
   <<"http", "xf.example", "host.example">>}

REQUEST_URLS == {Undefined, "https://req.example/path", "/path"}

PIXEL_URLS == {PIXEL_URL, "/pixel.gif"}

FILLED_KEYS == {"component", "framework", "source", "mode", "event", "ts",
                "nonce", "ua", "referer", "bot", "site"}

PARAM_VALUES == {JStr("caller"), JStr(""), JNum(0), JNull}

\* the params option: absent, or one key with one value
PARAMS_CHOICES ==
  {JUndef} \cup {[obj |-> (k :> v)] : k \in FILLED_KEYS \cup {"campaign"}, v \in PARAM_VALUES}

\* a plain-object header container holding the given values (undefined left out)
ObjectHeaders(ua, refs, fwd) ==
  LET all == << [key |-> "User-Agent", value |-> [str |-> ua]],
                [key |-> "Referer", value |-> [str |-> refs[2]]],
                [key |-> "Referrer", value |-> [str |-> refs[3]]],
                [key |-> "X-Forwarded-Proto", value |-> [str |-> fwd[1]]],
                [key |-> "X-Forwarded-Host", value |-> [arr |-> <<fwd[2]>>]],
                [key |-> "Host", value |-> [str |-> fwd[3]]] >>
      Present(e) == HeaderValueOf(e.value) # Undefined
  IN  [shape |-> "object", ci |-> FALSE, entries |-> SelectSeq(all, Present)]

\* The calls of the model.  Two families keep the product small: every
\* request shape with a few params bags, and every params bag with a few
\* request shapes.
SITE_PARAMS ==
  {JUndef, [obj |-> ("site" :> JStr("caller"))], [obj |-> ("site" :> JStr(""))],
   [obj |-> ("referer" :> JStr("caller"))]}

PLAIN_REFERERS ==
  {<<Undefined, Undefined, Undefined>>, <<Undefined, "https://ref.example/page", Undefined>>}

PLAIN_FORWARDS ==
  {<<Undefined, Undefined, Undefined>>, <<"http", "xf.example", "host.example">>}

BOT_CHOICES ==
  {<<Undefined, Undefined>>, <<Undefined, "Mozilla/5.0 (compatible; GPTBot/1.0)">>}

\* <<user agents, referers, forwarded headers, request.url, params, headers
\*   passed as options.headers instead of request.headers>>
CALL_SHAPES ==
  (BOT_CHOICES \X REFERER_CHOICES \X FORWARD_CHOICES \X REQUEST_URLS
     \X SITE_PARAMS \X {FALSE})
    \cup (USER_AGENT_CHOICES \X PLAIN_REFERERS \X PLAIN_FORWARDS \X {Undefined}
            \X PARAMS_CHOICES \X {FALSE})
    \cup (USER_AGENT_CHOICES \X PLAIN_REFERERS \X PLAIN_FORWARDS \X {Undefined}
            \X {JUndef} \X {TRUE})

Call ==
  /\ pc = "idle"
  /\ \E shape \in CALL_SHAPES, pixelUrl \in PIXEL_URLS,
        requireBotMatch \in BOOLEAN, force \in BOOLEAN, canFetch \in BOOLEAN :
       LET uas == shape[1]
           refs == shape[2]
           viaOptions == shape[6]
           headers == ObjectHeaders(uas[2], refs, shape[3])
           req == IF viaOptions
                    THEN [defined |-> FALSE, url |-> Undefined, headers |-> NoHeaders]
                    ELSE [defined |-> TRUE, url |-> shape[4], headers |-> headers]
       IN  Invoke(req,
                  [pixelUrl |-> pixelUrl, params |-> shape[5],
                   requireBotMatch |-> requireBotMatch, force |-> force,
                   userAgent |-> uas[1], referer |-> refs[1],
                   headers |-> IF viaOptions THEN headers ELSE NoHeaders],
                  canFetch)

Respond ==
  \E response \in {[status |-> 200, ok |-> TRUE], [status |-> 500, ok |-> FALSE]} :
    FetchFulfilled(response)

Fail == FetchFailed("network down")

DispatchInit ==
  /\ pc = "idle"
  /\ request = [defined |-> FALSE, url |-> Undefined, headers |-> NoHeaders]
  /\ options = [pixelUrl |-> PIXEL_URL, params |-> JUndef, requireBotMatch |-> TRUE,
                force |-> FALSE, userAgent |-> Undefined, referer |-> Undefined,
                headers |-> NoHeaders]
  /\ fetchAvailable = TRUE
  /\ userAgent = Undefined
  /\ referer = Undefined
  /\ botSignature = Null
  /\ url = NoURL
  /\ fetchCalls = <<>>
  /\ result = NoResult

\* ------------------------------------------------------------------------
\* Recorder script (buildMouseDetectionInlineScript)
\* ------------------------------------------------------------------------

\* the options of the script, scaled down from the defaults 5000, 1000 and 10
DURATION == 3
THROTTLE == 2
MAX == 2

\* movements.slice(0,5) and count % 5
SUMMARY_SIZE == 5
UPDATE_EVERY == 5

\* the page loads at LoadTime on the clock and is observed for MaxTime ms
LoadTime == THROTTLE + DURATION
MaxTime == 5
\* at most MaxCount movements in a session, at most MaxSessions sessions
MaxCount == 5
MaxSessions == 2

\* the pointer positions of mousemove events
POINTS == {[clientX |-> 1, clientY |-> 1]}

Min(a, b) == IF a < b THEN a ELSE b

\* the script's variables as one record
Recorder ==
  [isRecording |-> isRecording, startTime |-> startTime, lastPing |-> lastPing,
   count |-> count, movements |-> movements, timers |-> timers,
   session |-> session, beacons |-> beacons]

\* send(extra) without line 228: lastPing is never advanced
sendWithoutStamp(st, extra) ==
  IF now - st.lastPing < THROTTLE THEN st
  ELSE [st EXCEPT !.beacons = Append(@, [event |-> extra.event, ts |-> now,
                                         session |-> st.session, extra |-> extra])]

\* send(extra): dropped inside the throttle window, else an image request
send(st, extra) ==
  IF now - st.lastPing < THROTTLE THEN st
  ELSE [st EXCEPT !.lastPing = now,
                  !.beacons = Append(@, [event |-> extra.event, ts |-> now,
                                         session |-> st.session, extra |-> extra])]

\* start() without the test of line 237: a call while Recording starts over
startWhileRecording(st) ==
  LET begun == [st EXCEPT !.isRecording = TRUE, !.startTime = now,
                          !.count = 0, !.movements = <<>>,
                          !.session = @ + 1]
  IN  [send(begun, [event |-> "mouse-start"])
         EXCEPT !.timers = @ \cup {[due |-> now + DURATION,
                                    session |-> begun.session]}]

\* start() without line 243: no timer is set
startWithoutTimer(st) ==
  IF st.isRecording THEN st
  ELSE send([st EXCEPT !.isRecording = TRUE, !.startTime = now,
                       !.count = 0, !.movements = <<>>,
                       !.session = @ + 1],
            [event |-> "mouse-start"])

\* start() without lines 239-240: the counter and the samples are kept
startKeepingSamples(st) ==
  IF st.isRecording THEN st
  ELSE LET begun == [st EXCEPT !.isRecording = TRUE, !.startTime = now,
                               !.session = @ + 1]
       IN  [send(begun, [event |-> "mouse-start"])
              EXCEPT !.timers = @ \cup {[due |-> now + DURATION,
                                         session |-> begun.session]}]

start(st) ==
  IF st.isRecording THEN st
  ELSE LET begun == [st EXCEPT !.isRecording = TRUE, !.startTime = now,
                               !.count = 0, !.movements = <<>>,
                               !.session = @ + 1]
       IN  [send(begun, [event |-> "mouse-start"])
              EXCEPT !.timers = @ \cup {[due |-> now + DURATION,
                                         session |-> begun.session]}]

stop(st) ==
  IF ~st.isRecording THEN st
  ELSE send([st EXCEPT !.isRecording = FALSE],
            [event |-> "mouse-end",
             dur |-> NatToString(now - st.startTime),
             moves |-> NatToString(Len(st.movements)),
             data |-> [json |-> SubSeq(st.movements, 1,
                                       Min(SUMMARY_SIZE, Len(st.movements)))]])

\* onMove without the test of line 258: every movement is stored
onMoveWithoutCap(st, e) ==
  LET begun == IF ~st.isRecording THEN start(st) ELSE st
      counted == [begun EXCEPT !.count = @ + 1]
      sampled == [counted EXCEPT !.movements =
                    Append(@, [x |-> e.clientX, y |-> e.clientY,
                               t |-> now - counted.startTime])]
  IN  IF sampled.count % UPDATE_EVERY = 0
        THEN send(sampled, [event |-> "mouse-update",
                            c |-> NatToString(sampled.count),
                            t |-> NatToString(now - sampled.startTime),
                            x |-> NatToString(e.clientX),
                            y |-> NatToString(e.clientY)])
        ELSE sampled

onMove(st, e) ==
  LET begun == IF ~st.isRecording THEN start(st) ELSE st
      counted == [begun EXCEPT !.count = @ + 1]
      sampled ==
        IF Len(counted.movements) < MAX
          THEN [counted EXCEPT !.movements =
                  Append(@, [x |-> e.clientX, y |-> e.clientY,
                             t |-> now - counted.startTime])]
          ELSE counted
  IN  IF sampled.count % UPDATE_EVERY = 0
        THEN send(sampled, [event |-> "mouse-update",
                            c |-> NatToString(sampled.count),
                            t |-> NatToString(now - sampled.startTime),
                            x |-> NatToString(e.clientX),
                            y |-> NatToString(e.clientY)])
        ELSE sampled

\* onClick without line 267: the handler never opens a session
onClickWithoutStart(st, e) ==
  send(st, [event |-> "mouse-click", x |-> NatToString(e.clientX),
            y |-> NatToString(e.clientY), b |-> NatToString(e.button)])

onClick(st, e) ==
  send(IF ~st.isRecording THEN start(st) ELSE st,
       [event |-> "mouse-click", x |-> NatToString(e.clientX),
        y |-> NatToString(e.clientY), b |-> NatToString(e.button)])

onScroll(st) ==
  send(IF ~st.isRecording THEN start(st) ELSE st,
       [event |-> "scroll", sx |-> "0", sy |-> "0"])

\* the variables after a handler that leaves the script in state st
Becomes(st) ==
  /\ isRecording' = st.isRecording
  /\ startTime' = st.startTime
  /\ lastPing' = st.lastPing
  /\ count' = st.count
  /\ movements' = st.movements
  /\ timers' = st.timers
  /\ session' = st.session
  /\ beacons' = st.beacons
  /\ UNCHANGED <<now, dispatchVars, pixelScriptVars, libraryVars, standaloneVars>>

\* a handler may open a session only while the model has sessions left
MayStart == isRecording \/ session < MaxSessions

MouseMove ==
  /\ MayStart
  /\ isRecording => count < MaxCount
  /\ \E e \in POINTS : \E st \in {onMove(Recorder, e)} : Becomes(st)
  /\ lastEvent' = now

Click ==
  /\ MayStart
  /\ \E st \in {onClick(Recorder, [clientX |-> 1, clientY |-> 1, button |-> 0])} :
       Becomes(st)
  /\ lastEvent' = now

Scroll ==
  /\ MayStart
  /\ \E st \in {onScroll(Recorder)} : Becomes(st)
  /\ lastEvent' = now

\* a pending timer runs stop() once its delay has passed
TimerFires ==
  /\ \E timer \in timers :
       /\ now >= timer.due
       /\ \E st \in {stop([Recorder EXCEPT !.timers = @ \ {timer}])} : Becomes(st)
  /\ UNCHANGED lastEvent

\* window.BILDIT_MOUSE_DETECTION.start() and .stop()
ManualStart ==
  /\ MayStart
  /\ \E st \in {start(Recorder)} : Becomes(st)
  /\ UNCHANGED lastEvent

ManualStop ==
  /\ \E st \in {stop(Recorder)} : Becomes(st)
  /\ UNCHANGED lastEvent

Tick ==
  /\ now < LoadTime + MaxTime
  /\ now' = now + 1
  /\ UNCHANGED <<isRecording, startTime, lastPing, count, movements, timers,
                 session, beacons, lastEvent, dispatchVars, pixelScriptVars,
                 libraryVars, standaloneVars>>

\* the state once the script has run: listeners registered, mouse-init sent
RecorderInit ==
  /\ now = LoadTime
  /\ lastEvent = 0
  /\ isRecording = FALSE
  /\ startTime = 0
  /\ count = 0
  /\ movements = <<>>
  /\ timers = {}
  /\ session = 0
  /\ \E st \in {send([isRecording |-> FALSE, startTime |-> 0, lastPing |-> 0,
                      count |-> 0, movements |-> <<>>, timers |-> {},
                      session |-> 0, beacons |-> <<>>],
                     [event |-> "mouse-init", vw |-> "0", vh |-> "0"])} :
       /\ lastPing = st.lastPing
       /\ beacons = st.beacons

RecorderNext ==
  MouseMove \/ Click \/ Scroll \/ TimerFires \/ ManualStart \/ ManualStop \/ Tick

\* ------------------------------------------------------------------------
\* Client script of buildPixelInlineScript
\* ------------------------------------------------------------------------

\* at most MaxMoves mousemove events on the page
MaxMoves == 3

\* the pages a script may run in: fetch missing, working or throwing, the
\* Image constructor working or throwing, document.body/documentElement
\* present or not
ENVS == [fetch : {"absent", "works", "throws"}, image : {"works", "throws"},
         target : BOOLEAN]

\* the script's variables, with `thrown` set while an exception propagates
PixelScript ==
  [listeners |-> listeners, mouseTracked |-> mouseTracked, attempts |-> attempts,
   appended |-> appended, logged |-> logged, uncaught |-> uncaught,
   thrown |-> FALSE]

\* sendBeacon without the return of line 117: the Image is made after fetch too
sendBeaconWithoutReturn(st, page, event) ==
  LET fetched == IF page.fetch = "works" THEN <<"fetch">> ELSE <<>>
      imaged == IF page.image = "works" THEN <<"image">> ELSE <<>>
  IN  [st EXCEPT !.attempts = Append(@, [event |-> event, via |-> fetched \o imaged])]

\* sendBeacon(extra, {method: 'fetch'}): fetch when it is a function, and
\* return; when it is missing or throws, an Image; both guarded.  `via` lists
\* the transports that took the URL.
sendBeacon(st, page, event) ==
  LET fetched == IF page.fetch = "works" THEN <<"fetch">> ELSE <<>>
      returns == page.fetch = "works"
      imaged == IF ~returns /\ page.image = "works" THEN <<"image">> ELSE <<>>
  IN  [st EXCEPT !.attempts = Append(@, [event |-> event, via |-> fetched \o imaged])]

\* appendPixel(extra): the Image is built with no guard around it
appendPixel(st, page, event) ==
  IF page.image = "throws" THEN [st EXCEPT !.thrown = TRUE]
  ELSE [st EXCEPT !.attempts = Append(@, [event |-> event, via |-> <<"image">>]),
                  !.appended = IF page.target THEN @ + 1 ELSE @]

initPixel(st, page) == appendPixel(st, page, "render")

\* the body of the script with the render image made before the bootstrap
\* beacon
RunScriptRenderFirst(st, page, state) ==
  LET rendered ==
        IF state = "loading"
          THEN [st EXCEPT !.listeners = @ \cup {"DOMContentLoaded"}]
          ELSE initPixel(st, page)
      booted == sendBeacon(rendered, page, "bootstrap")
  IN  IF rendered.thrown
        THEN [rendered EXCEPT !.thrown = FALSE, !.logged = @ + 1]
        ELSE [booted EXCEPT !.listeners = @ \cup {"mousemove"},
                            !.mouseTracked = FALSE]

\* the body of the script, lines 80-173, inside its try/catch
RunScript(st, page, state) ==
  LET booted == sendBeacon(st, page, "bootstrap")
      rendered ==
        IF state = "loading"
          THEN [booted EXCEPT !.listeners = @ \cup {"DOMContentLoaded"}]
          ELSE initPixel(booted, page)
  IN  IF rendered.thrown
        THEN [rendered EXCEPT !.thrown = FALSE, !.logged = @ + 1]
        ELSE [rendered EXCEPT !.listeners = @ \cup {"mousemove"},
                              !.mouseTracked = FALSE]

\* handleMouseMove without line 162: the latch is never set
handleMouseMoveWithoutLatch(st, page) ==
  IF st.mouseTracked THEN st
  ELSE [sendBeacon(st, page, "mouse")
          EXCEPT !.listeners = @ \ {"mousemove"}]

handleMouseMove(st, page) ==
  IF st.mouseTracked THEN st
  ELSE [sendBeacon([st EXCEPT !.mouseTracked = TRUE], page, "mouse")
          EXCEPT !.listeners = @ \ {"mousemove"}]

\* the variables after a callback that leaves the script in state st; an
\* exception still propagating reaches the page
Leaves(st) ==
  /\ listeners' = st.listeners
  /\ mouseTracked' = st.mouseTracked
  /\ attempts' = st.attempts
  /\ appended' = st.appended
  /\ logged' = st.logged
  /\ uncaught' = IF st.thrown THEN st.uncaught + 1 ELSE st.uncaught
  /\ UNCHANGED <<dispatchVars, recorderVars, libraryVars, standaloneVars>>

\* the browser executes the script element
Run ==
  /\ ~scriptRan
  /\ scriptRan' = TRUE
  /\ \E page \in ENVS :
       /\ env' = page
       /\ \E st \in {RunScript(PixelScript, page, readyState)} : Leaves(st)
  /\ UNCHANGED <<readyState, moves>>

\* the document has been parsed; a listener registered with once runs once
DOMContentLoaded ==
  /\ readyState = "loading"
  /\ readyState' = "interactive"
  /\ IF "DOMContentLoaded" \in listeners
       THEN \E st \in {initPixel([PixelScript EXCEPT
                                    !.listeners = @ \ {"DOMContentLoaded"}], env)} :
              Leaves(st)
       ELSE /\ UNCHANGED <<listeners, mouseTracked, attempts, appended, logged,
                           uncaught>>
            /\ UNCHANGED <<dispatchVars, recorderVars, libraryVars, standaloneVars>>
  /\ UNCHANGED <<scriptRan, env, moves>>

\* a mousemove event on the page; the listener was registered with once
PointerMoves ==
  /\ moves < MaxMoves
  /\ moves' = moves + 1
  /\ IF "mousemove" \in listeners
       THEN \E st \in {handleMouseMove([PixelScript EXCEPT
                                          !.listeners = @ \ {"mousemove"}], env)} :
              Leaves(st)
       ELSE /\ UNCHANGED <<listeners, mouseTracked, attempts, appended, logged,
                           uncaught>>
            /\ UNCHANGED <<dispatchVars, recorderVars, libraryVars, standaloneVars>>
  /\ UNCHANGED <<scriptRan, env, readyState>>

\* the page before the script element is reached
PixelScriptInit ==
  /\ scriptRan = FALSE
  /\ env = [fetch |-> "works", image |-> "works", target |-> TRUE]
  /\ readyState = "loading"
  /\ listeners = {}
  /\ mouseTracked = FALSE
  /\ attempts = <<>>
  /\ appended = 0
  /\ logged = 0
  /\ uncaught = 0
  /\ moves = 0

PixelScriptNext == Run \/ DOMContentLoaded \/ PointerMoves

\* ------------------------------------------------------------------------
\* Surface selection and the params normalizer
\* ------------------------------------------------------------------------

SURFACE_KEYS == <<"img", "iframe", "noscript", "script">>

MODE_MAP ==
  [auto |-> SURFACE_KEYS,
   server |-> <<"img", "iframe", "noscript", "script">>,
   image |-> <<"img">>,
   img |-> <<"img">>,
   iframe |-> <<"iframe">>,
   noscript |-> <<"noscript">>,
   script |-> <<"script">>]

\* MODE_MAP is an object literal: a property read also finds what
\* Object.prototype holds, such as these two functions
OBJECT_PROTOTYPE == {"constructor", "toString"}

\* `null` where a mode token is expected
NullToken == "<null>"

\* a mode is one token, [token |-> t], or a list of tokens, [array |-> ts]
Token(t) == [token |-> t]
Array(ts) == [array |-> ts]
IsArray(mode) == "array" \in DOMAIN mode
\* the function found under an inherited key, as a value and as a list element
Inherited(key) == [inherited |-> key]
FunctionName(key) == "Object.prototype." \o key

Elements(list) == {list[i] : i \in 1..Len(list)}

Includes(list, x) == \E i \in 1..Len(list) : list[i] = x

\* Array.from(new Set(list)): first occurrences, in order
Dedupe(list) ==
  LET Kept[i \in 0..Len(list)] ==
        IF i = 0 THEN <<>>
        ELSE IF Includes(Kept[i - 1], list[i]) THEN Kept[i - 1]
        ELSE Append(Kept[i - 1], list[i])
  IN  Kept[Len(list)]

\* the callback of flatMap, lines 58-62
FlatMapEntry(entry) ==
  IF entry \in DOMAIN MODE_MAP THEN MODE_MAP[entry]
  ELSE IF entry \in OBJECT_PROTOTYPE THEN <<FunctionName(entry)>>
  ELSE IF Includes(SURFACE_KEYS, entry) THEN <<entry>>
  ELSE <<>>

FlatMap(entries) ==
  LET Flat[i \in 0..Len(entries)] ==
        IF i = 0 THEN <<>> ELSE Flat[i - 1] \o FlatMapEntry(entries[i])
  IN  Flat[Len(entries)]

\* getModes returning the flattened list as it is, without the Set
getModesWithoutSet(mode) ==
  IF IsArray(mode)
    THEN LET flattened == FlatMap(mode.array)
         IN  Array(IF Len(flattened) > 0 THEN flattened ELSE MODE_MAP.auto)
  ELSE IF ~Truthy(mode.token) \/ mode.token = NullToken THEN Array(MODE_MAP.auto)
  ELSE IF mode.token \in DOMAIN MODE_MAP THEN Array(MODE_MAP[mode.token])
  ELSE IF mode.token \in OBJECT_PROTOTYPE THEN Inherited(mode.token)
  ELSE IF Includes(SURFACE_KEYS, mode.token) THEN Array(<<mode.token>>)
  ELSE Array(MODE_MAP.auto)

getModes(mode) ==
  IF IsArray(mode)
    THEN LET flattened == FlatMap(mode.array)
         IN  Array(Dedupe(IF Len(flattened) > 0 THEN flattened ELSE MODE_MAP.auto))
  ELSE IF ~Truthy(mode.token) \/ mode.token = NullToken THEN Array(MODE_MAP.auto)
  ELSE IF mode.token \in DOMAIN MODE_MAP THEN Array(MODE_MAP[mode.token])
  ELSE IF mode.token \in OBJECT_PROTOTYPE THEN Inherited(mode.token)
  ELSE IF Includes(SURFACE_KEYS, mode.token) THEN Array(<<mode.token>>)
  ELSE Array(MODE_MAP.auto)

WITHOUT_SCRIPT == <<"img", "iframe", "noscript">>

\* the switch of lines 117-128
Expand(entry) ==
  IF entry \in {Undefined, NullToken} THEN <<>>
  ELSE IF entry \in {"auto", "server"} THEN <<"img", "iframe", "noscript">>
  ELSE IF entry = "image" THEN <<"img">>
  ELSE <<entry>>

Expanded(entries) ==
  LET Pushed[i \in 0..Len(entries)] ==
        IF i = 0 THEN <<>> ELSE Pushed[i - 1] \o Expand(entries[i])
  IN  Pushed[Len(entries)]

IsSurface(surface) == Includes(SURFACE_KEYS, surface)
NotScript(surface) == surface # "script"

\* the loop of lines 136-141
Unique(filtered) ==
  LET Kept[i \in 0..Len(filtered)] ==
        IF i = 0 THEN <<>>
        ELSE IF ~Includes(Kept[i - 1], filtered[i]) /\ IsSurface(filtered[i])
          THEN Append(Kept[i - 1], filtered[i])
        ELSE Kept[i - 1]
  IN  Kept[Len(filtered)]

\* resolveModeWithoutScript without the filter of line 131
resolveModeKeepingScript(mode) ==
  IF (IF IsArray(mode) THEN Len(mode.array) = 0
      ELSE ~Truthy(mode.token) \/ mode.token = NullToken)
    THEN Array(WITHOUT_SCRIPT)
  ELSE LET entries == IF IsArray(mode) THEN mode.array ELSE <<mode.token>>
           filtered == Expanded(entries)
       IN  IF Len(filtered) = 0 THEN Array(WITHOUT_SCRIPT)
           ELSE IF Len(Unique(filtered)) = 0 THEN Array(WITHOUT_SCRIPT)
           ELSE Array(Unique(filtered))

resolveModeWithoutScript(mode) ==
  IF (IF IsArray(mode) THEN Len(mode.array) = 0
      ELSE ~Truthy(mode.token) \/ mode.token = NullToken)
    THEN Array(WITHOUT_SCRIPT)
  ELSE LET entries == IF IsArray(mode) THEN mode.array ELSE <<mode.token>>
           filtered == SelectSeq(Expanded(entries), NotScript)
       IN  IF Len(filtered) = 0 THEN Array(WITHOUT_SCRIPT)
           ELSE IF Len(Unique(filtered)) = 0 THEN Array(WITHOUT_SCRIPT)
           ELSE Array(Unique(filtered))

\* ------------------------------------------------------------------------
\* Pixel URLs of the React component (buildQueryString, buildPixelSrc)
\* ------------------------------------------------------------------------

\* A URL text is a sequence of atoms: the characters ?, &, = and space stand
\* for themselves, and a word is a run of characters that URLSearchParams
\* leaves as they are (letters, digits, - . _ *) or, in a base URL, any run
\* without a `?`.  ATOMS spells the strings of the model that hold more than
\* one atom; every other non-empty string is one word.
ATOMS ==
   "" :> <<>> @@
   "a&b" :> <<"a", "&", "b">> @@
   "x y=z" :> <<"x", " ", "y", "=", "z">> @@
   "/p?" :> <<"/p", "?">> @@
   "/p?v=1" :> <<"/p", "?", "v", "=", "1">> @@
   "/p?v=1&" :> <<"/p", "?", "v", "=", "1", "&">>

Atoms(text) == IF text \in DOMAIN ATOMS THEN ATOMS[text] ELSE <<text>>

\* the application/x-www-form-urlencoded serializer of URLSearchParams
FORM_ENCODED == "?" :> "%3F" @@ "&" :> "%26" @@ "=" :> "%3D" @@ " " :> "+"

FormEncode(atoms) ==
  [i \in 1..Len(atoms) |->
     IF atoms[i] \in DOMAIN FORM_ENCODED THEN FORM_ENCODED[atoms[i]] ELSE atoms[i]]

\* An object with its own keys in insertion order, as Object.entries and the
\* spread syntax see it.
Assign(object, k, v) ==
  [obj |-> Put(object.obj, k, v),
   keys |-> IF k \in DOMAIN object.obj THEN object.keys ELSE Append(object.keys, k)]

\* buildQueryString: search.append for every entry, then toString
buildQueryString(params) ==
  LET Joined[i \in 0..Len(params.keys)] ==
        IF i = 0 THEN <<>>
        ELSE (IF i = 1 THEN <<>> ELSE Joined[i - 1] \o <<"&">>)
               \o FormEncode(Atoms(params.keys[i])) \o <<"=">>
               \o FormEncode(Atoms(params.obj[params.keys[i]]))
  IN  Joined[Len(params.keys)]

\* buildPixelSrc joining with `?` whatever the base holds
buildPixelSrcAlwaysQuestion(baseUrl, params) ==
  LET query == buildQueryString(params)
  IN  IF Len(query) = 0 THEN Atoms(baseUrl)
      ELSE Atoms(baseUrl) \o <<"?">> \o query

buildPixelSrc(baseUrl, params) ==
  LET query == buildQueryString(params)
  IN  IF Len(query) = 0 THEN Atoms(baseUrl)
      ELSE Atoms(baseUrl)
             \o <<IF Includes(Atoms(baseUrl), "?") THEN "&" ELSE "?">>
             \o query

\* ------------------------------------------------------------------------
\* The components BILDITAIPixel and NextBILDITAIPixel
\* ------------------------------------------------------------------------

\* escapeAttribute on a URL text: of its three characters only & occurs
escapeAttribute(atoms) ==
  [i \in 1..Len(atoms) |-> IF atoms[i] = "&" THEN "&amp;" ELSE atoms[i]]

\* normalizePixelParams on an object with ordered keys
Sanitized(params) ==
  LET sanitized == normalizePixelParams(params)
      Kept(k) == k \in DOMAIN sanitized
  IN  [obj |-> sanitized,
       keys |-> IF IsNullish(params) THEN <<>> ELSE SelectSeq(params.keys, Kept)]

\* lines 328-333: the defaults of the component
WithReactDefaults(params) ==
  LET withComponent ==
        IF ~Truthy(Get(params.obj, "component"))
          THEN Assign(params, "component", "react") ELSE params
  IN  IF ~Truthy(Get(withComponent.obj, "source"))
        THEN Assign(withComponent, "source", "bildit-ai-pixel") ELSE withComponent

\* Surfaces with the mode pair appended to the URL text instead of being
\* written into the params
SurfacesAppendingMode(pixelUrl, normalizedParams, mode) ==
  LET modes == getModes(IF mode = Token(Undefined) THEN Token("auto") ELSE mode)
      Src(surface) == buildPixelSrc(pixelUrl, normalizedParams)
                        \o <<"&", "mode", "=", surface>>
      Pushed(surface, element) ==
        IF Includes(modes.array, surface) THEN <<element>> ELSE <<>>
  IN  IF ~IsArray(modes) THEN Threw
      ELSE [elements |->
              Pushed("img", [type |-> "img", carries |-> Src("img")])
                \o Pushed("iframe", [type |-> "iframe", carries |-> Src("iframe")])
                \o Pushed("noscript", [type |-> "noscript",
                                       carries |-> escapeAttribute(Src("noscript"))])
                \o Pushed("script", [type |-> "script",
                                     carries |-> <<"script of", pixelUrl>>])]

\* what the component renders from normalizedParams: the elements in order
\* (type and the URL or content they carry), or Threw
Surfaces(pixelUrl, normalizedParams, mode) ==
  LET modes == getModes(IF mode = Token(Undefined) THEN Token("auto") ELSE mode)
      Src(surface) == buildPixelSrc(pixelUrl, Assign(normalizedParams, "mode", surface))
      Pushed(surface, element) ==
        IF Includes(modes.array, surface) THEN <<element>> ELSE <<>>
  IN  IF ~IsArray(modes) THEN Threw
      ELSE [elements |->
              Pushed("img", [type |-> "img", carries |-> Src("img")])
                \o Pushed("iframe", [type |-> "iframe", carries |-> Src("iframe")])
                \o Pushed("noscript", [type |-> "noscript",
                                       carries |-> escapeAttribute(Src("noscript"))])
                \o Pushed("script", [type |-> "script",
                                     carries |-> <<"script of", pixelUrl>>])]

\* BILDITAIPixel without lines 328-333
BILDITAIPixelWithoutDefaults(props) ==
  Surfaces(props.pixelUrl, Sanitized(props.params), props.mode)

BILDITAIPixel(props) ==
  Surfaces(props.pixelUrl, WithReactDefaults(Sanitized(props.params)), props.mode)

DEFAULT_SCRIPT_ID == "bildit-ai-pixel"

\* line 404 with the order of the keys: the caller's, then the defaults added
NextNormalized(params) ==
  LET merged == withNextDefaults(params).obj
      given == IF IsNullish(params) THEN <<>> ELSE params.keys
      Added(k) == k \notin Elements(given)
  IN  Sanitized([obj |-> merged,
                 keys |-> given \o SelectSeq(<<"component", "framework", "source">>, Added)])

\* a mapping of strings passed on as a params prop
AsParams(object) == [obj |-> [k \in DOMAIN object.obj |-> JStr(object.obj[k])],
                     keys |-> object.keys]

\* NextBILDITAIPixel handing the caller's mode to the inner component as it is
NextBILDITAIPixelRawMode(props) ==
  LET normalizedParams == NextNormalized(props.params)
      pixelElement == BILDITAIPixel([pixelUrl |-> props.pixelUrl,
                                     params |-> AsParams(normalizedParams),
                                     mode |-> props.mode])
  IN  [pixel |-> pixelElement,
       scripts |-> IF ~props.includeScript THEN <<>>
                   ELSE <<[type |-> "next/script", id |-> DEFAULT_SCRIPT_ID,
                           strategy |-> "afterInteractive"]>>]

\* NextBILDITAIPixel: the inner component's result and the next/script elements
NextBILDITAIPixel(props) ==
  LET normalizedParams == NextNormalized(props.params)
      pixelElement == BILDITAIPixel([pixelUrl |-> props.pixelUrl,
                                     params |-> AsParams(normalizedParams),
                                     mode |-> resolveModeWithoutScript(props.mode)])
  IN  [pixel |-> pixelElement,
       scripts |-> IF ~props.includeScript THEN <<>>
                   ELSE <<[type |-> "next/script", id |-> DEFAULT_SCRIPT_ID,
                           strategy |-> "afterInteractive"]>>]

\* lists of at most MaxModes tokens
MaxModes == 2

TOKENS == {"auto", "server", "image", "img", "iframe", "noscript", "script",
           "bogus", "constructor", "", Undefined, NullToken}

TOKEN_LISTS == UNION {[1..n -> TOKENS] : n \in 0..MaxModes}

MODES == {Token(t) : t \in TOKENS} \cup {Array(ts) : ts \in TOKEN_LISTS}

\* the values of a params mapping
SCALARS == {JStr("spring"), JStr(""), JNum(0), JNum(-12), JBool(TRUE),
            JBool(FALSE), JNull, JUndef}

MAPPINGS ==
  {JUndef, JNull}
    \cup {[obj |-> m] : m \in UNION {[ks -> SCALARS] : ks \in SUBSET {"campaign", "n"}}}

CallGetModes ==
  /\ callee = "none"
  /\ \E mode \in MODES :
       /\ callee' = "getModes"
       /\ argument' = mode
       /\ returned' = getModes(mode)
       /\ UNCHANGED <<dispatchVars, recorderVars, pixelScriptVars, standaloneVars>>

CallResolveModeWithoutScript ==
  /\ callee = "none"
  /\ \E mode \in MODES :
       /\ callee' = "resolveModeWithoutScript"
       /\ argument' = mode
       /\ returned' = resolveModeWithoutScript(mode)
       /\ UNCHANGED <<dispatchVars, recorderVars, pixelScriptVars, standaloneVars>>

CallNormalizePixelParams ==
  /\ callee = "none"
  /\ \E params \in MAPPINGS :
       /\ callee' = "normalizePixelParams"
       /\ argument' = params
       /\ returned' = [object |-> normalizePixelParams(params)]
       /\ UNCHANGED <<dispatchVars, recorderVars, pixelScriptVars, standaloneVars>>

\* base URLs, and mappings of strings with up to MaxEntries entries
MaxEntries == 2

BASE_URLS == {"https://ai-pixel.example/pixel.gif", "/p?", "/p?v=1", "/p?v=1&", ""}

QUERY_KEYS == {"campaign", "a&b"}
QUERY_VALUES == {"spring", "", "x y=z"}

\* key orders without repetition
KEY_ORDERS(keys) ==
  {order \in UNION {[1..n -> keys] : n \in 0..MaxEntries} :
     \A i, j \in 1..Len(order) : i # j => order[i] # order[j]}

STRING_MAPPINGS ==
  UNION {{[obj |-> m, keys |-> order] : m \in [Elements(order) -> QUERY_VALUES]} :
           order \in KEY_ORDERS(QUERY_KEYS)}

CallBuildPixelSrc ==
  /\ callee = "none"
  /\ \E baseUrl \in BASE_URLS, params \in STRING_MAPPINGS :
       /\ callee' = "buildPixelSrc"
       /\ argument' = [baseUrl |-> baseUrl, params |-> params]
       /\ returned' = buildPixelSrc(baseUrl, params)
       /\ UNCHANGED <<dispatchVars, recorderVars, pixelScriptVars, standaloneVars>>

\* the props of the components
RENDER_MODES ==
  {Token(t) : t \in TOKENS}
    \cup {Array(<<"image">>), Array(<<"img", "script">>), Array(<<"constructor">>)}

PARAMS_PROPS ==
  {JUndef}
    \cup UNION {{[obj |-> m, keys |-> order] :
                   m \in [Elements(order) -> {JStr("spring"), JStr(""), JNull, JNum(0)}]} :
                  order \in KEY_ORDERS({"campaign", "component", "mode"})}

CallBILDITAIPixel ==
  /\ callee = "none"
  /\ \E pixelUrl \in {"https://ai-pixel.example/pixel.gif", "/p?v=1"},
        params \in PARAMS_PROPS, mode \in RENDER_MODES :
       /\ callee' = "BILDITAIPixel"
       /\ argument' = [pixelUrl |-> pixelUrl, params |-> params, mode |-> mode]
       /\ returned' = BILDITAIPixel(argument')
       /\ UNCHANGED <<dispatchVars, recorderVars, pixelScriptVars, standaloneVars>>

CallNextBILDITAIPixel ==
  /\ callee = "none"
  /\ \E params \in {JUndef, [obj |-> ("campaign" :> JStr("spring")), keys |-> <<"campaign">>]},
        mode \in MODES, includeScript \in BOOLEAN :
       /\ callee' = "NextBILDITAIPixel"
       /\ argument' = [pixelUrl |-> PIXEL_URL, params |-> params, mode |-> mode,
                       includeScript |-> includeScript]
       /\ returned' = NextBILDITAIPixel(argument')
       /\ UNCHANGED <<dispatchVars, recorderVars, pixelScriptVars, standaloneVars>>

\* header containers holding at most one header, under some capitalisation
HEADER_CONTAINERS ==
  {NoHeaders}
    \cup {[shape |-> shape, ci |-> FALSE, entries |-> entries] :
            shape \in {"getter", "array", "object"},
            entries \in {<<>>} \cup {<<[key |-> key, value |-> [str |-> "GPTBot/1.0"]]>> :
                                       key \in {"user-agent", "User-Agent", "USER-AGENT"}}}
    \cup {[shape |-> "getter", ci |-> TRUE,
           entries |-> <<[key |-> key, value |-> [str |-> "GPTBot/1.0"]]>>] :
            key \in {"user-agent", "User-Agent", "USER-AGENT"}}

CallToHeaderValue ==
  /\ callee = "none"
  /\ \E headersLike \in HEADER_CONTAINERS, name \in {"user-agent", "User-Agent"} :
       /\ callee' = "toHeaderValue"
       /\ argument' = [headersLike |-> headersLike, name |-> name]
       /\ returned' = [value |-> toHeaderValue(headersLike, name)]
       /\ UNCHANGED <<dispatchVars, recorderVars, pixelScriptVars, standaloneVars>>

\* ------------------------------------------------------------------------
\* The configuration embedded in the inline scripts
\* ------------------------------------------------------------------------

\* texts are sequences of characters; the letters s-c-r-i-p-t in one case or
\* another are one atom, and x stands for any other character
MaxChars == 3
SCRIPT_WORDS == {"script", "SCRIPT"}
TEXT_CHARS == {"<", "/", "\\", "x"} \cup SCRIPT_WORDS
TEXTS == UNION {[1..n -> TEXT_CHARS] : n \in 0..MaxChars}

\* JSON.stringify of a string: quoted, each backslash doubled
JSONString(text) ==
  LET Out[i \in 0..Len(text)] ==
        IF i = 0 THEN <<"\"">>
        ELSE Out[i - 1] \o (IF text[i] = "\\" THEN <<"\\", "\\">> ELSE <<text[i]>>)
  IN  Out[Len(text)] \o <<"\"">>

\* JSON.stringify(payload) for a payload with pixelUrl and one param, q
Stringify(pixelUrl, q) ==
  <<"{pixelUrl:">> \o JSONString(pixelUrl) \o <<",params:{q:">> \o JSONString(q)
    \o <<"}}">>

\* .replace(/<\/script/gi, '<\\/script'): every </script in any case becomes
\* the text <\/script
RECURSIVE ReplaceClosingTag(_)
ReplaceClosingTag(text) ==
  IF text = <<>> THEN <<>>
  ELSE IF Len(text) >= 3 /\ text[1] = "<" /\ text[2] = "/" /\ text[3] \in SCRIPT_WORDS
    THEN <<"<", "\\", "/", "script">> \o ReplaceClosingTag(SubSeq(text, 4, Len(text)))
  ELSE <<text[1]>> \o ReplaceClosingTag(Tail(text))

\* .replace(/<\/?script/gi, match => match.replace(/</g, '<\\/')): in every
\* <script and </script the < becomes <\/
RECURSIVE ReplaceTags(_)
ReplaceTags(text) ==
  IF text = <<>> THEN <<>>
  ELSE IF Len(text) >= 3 /\ text[1] = "<" /\ text[2] = "/" /\ text[3] \in SCRIPT_WORDS
    THEN <<"<", "\\", "/", "/", text[3]>> \o ReplaceTags(SubSeq(text, 4, Len(text)))
  ELSE IF Len(text) >= 2 /\ text[1] = "<" /\ text[2] \in SCRIPT_WORDS
    THEN <<"<", "\\", "/", text[2]>> \o ReplaceTags(SubSeq(text, 3, Len(text)))
  ELSE <<text[1]>> \o ReplaceTags(Tail(text))

\* the text that follows `var cfg = ` in the script of each builder
buildPixelInlineScript(pixelUrl, baseParams) ==
  ReplaceClosingTag(Stringify(pixelUrl, baseParams.q))

buildMouseDetectionInlineScript(pixelUrl, opts) ==
  ReplaceTags(Stringify(pixelUrl, opts.params.q))

\* a string literal as the script engine reads it: a backslash gives the
\* character after it
RECURSIVE StringValue(_)
StringValue(literal) ==
  IF literal = <<>> THEN <<>>
  ELSE IF literal[1] = "\\" /\ Len(literal) >= 2
    THEN <<literal[2]>> \o StringValue(SubSeq(literal, 3, Len(literal)))
  ELSE <<literal[1]>> \o StringValue(Tail(literal))

\* the cfg object the script gets from evaluating the embedded text
Evaluated(text) ==
  LET Quotes[i \in 0..Len(text)] ==
        IF i = 0 THEN <<>>
        ELSE IF text[i] = "\"" THEN Append(Quotes[i - 1], i) ELSE Quotes[i - 1]
      at == Quotes[Len(text)]
  IN  [pixelUrl |-> StringValue(SubSeq(text, at[1] + 1, at[2] - 1)),
       q |-> StringValue(SubSeq(text, at[3] + 1, at[4] - 1))]

INLINE_PIXEL_URLS ==
  {<<"https://ai-pixel.example/pixel.gif">>, <<"/p?t=", "<", "/", "script">>}

CallBuildPixelInlineScript ==
  /\ callee = "none"
  /\ \E pixelUrl \in INLINE_PIXEL_URLS, q \in TEXTS :
       /\ callee' = "buildPixelInlineScript"
       /\ argument' = [pixelUrl |-> pixelUrl, params |-> [q |-> q]]
       /\ returned' = buildPixelInlineScript(pixelUrl, [q |-> q])
       /\ UNCHANGED <<dispatchVars, recorderVars, pixelScriptVars, standaloneVars>>

CallBuildMouseDetectionInlineScript ==
  /\ callee = "none"
  /\ \E pixelUrl \in INLINE_PIXEL_URLS, q \in TEXTS :
       /\ callee' = "buildMouseDetectionInlineScript"
       /\ argument' = [pixelUrl |-> pixelUrl, params |-> [q |-> q]]
       /\ returned' = buildMouseDetectionInlineScript(pixelUrl, [params |-> [q |-> q]])
       /\ UNCHANGED <<dispatchVars, recorderVars, pixelScriptVars, standaloneVars>>

LibraryInit ==
  /\ callee = "none"
  /\ argument = JUndef
  /\ returned = JUndef

LibraryNext ==
  \/ CallGetModes
  \/ CallResolveModeWithoutScript
  \/ CallNormalizePixelParams
  \/ CallBuildPixelSrc
  \/ CallBILDITAIPixel
  \/ CallNextBILDITAIPixel
  \/ CallToHeaderValue
  \/ CallBuildPixelInlineScript
  \/ CallBuildMouseDetectionInlineScript

\* ------------------------------------------------------------------------
\* Standalone mouse-detection script
\* ------------------------------------------------------------------------

\* the page is observed for MaxClock ms and calls at most MaxSetterCalls setters
MaxClock == 2
MaxSetterCalls == 1

\* lines 394-397, with window.BILDIT_RECORDING_DURATION, _THROTTLE_INTERVAL
\* and _MAX_MOVEMENTS set by the page to small values
CONFIGURATION ==
  [PIXEL_URL |-> "https://ai-pixel.bildit.co/pixel.gif",
   RECORDING_DURATION |-> 2,
   THROTTLE_INTERVAL |-> 1,
   MAX_MOVEMENTS |-> 2]

\* the values the page hands to the setters
SETTER_VALUES ==
  [PIXEL_URL |-> {"https://ai-pixel.example/pixel.gif"},
   RECORDING_DURATION |-> {1},
   THROTTLE_INTERVAL |-> {2},
   MAX_MOVEMENTS |-> {1}]

\* the script's variables as one record
Detector ==
  [isRecording |-> detector.isRecording,
   recordingStartTime |-> detector.recordingStartTime,
   lastPixelRequest |-> detector.lastPixelRequest,
   movementCount |-> detector.movementCount,
   mouseMovements |-> detector.mouseMovements,
   timeouts |-> timeouts, pixelRequests |-> pixelRequests]

\* sendPixelRequest: dropped inside the throttle window; else an image whose
\* URL is PIXEL_URL with source and the extra parameters (of these the log
\* keeps the ones read from the configuration).  asked is what the setters
\* had been given when the request was made.
sendPixelRequest(st, source, extra) ==
  IF clock - st.lastPixelRequest < configuration.THROTTLE_INTERVAL THEN st
  ELSE [st EXCEPT !.lastPixelRequest = clock,
                  !.pixelRequests = Append(@, [source |-> source,
                                               url |-> configuration.PIXEL_URL,
                                               ts |-> clock, extra |-> extra,
                                               asked |-> requested])]

startRecording(st) ==
  IF st.isRecording THEN st
  ELSE LET begun == [st EXCEPT !.isRecording = TRUE, !.recordingStartTime = clock,
                               !.movementCount = 0, !.mouseMovements = <<>>]
           sent == sendPixelRequest(begun, "mouse-detection-start",
                     [recordingDuration |-> configuration.RECORDING_DURATION,
                      maxMovements |-> configuration.MAX_MOVEMENTS])
       IN  [sent EXCEPT !.timeouts =
              @ \cup {[due |-> clock + configuration.RECORDING_DURATION]}]

stopRecording(st) ==
  IF ~st.isRecording THEN st
  ELSE sendPixelRequest([st EXCEPT !.isRecording = FALSE], "mouse-detection-end",
                        EmptyObject)

\* handleMouseMove: the pointer position is left out of the samples
handleMove(st) ==
  LET begun == IF ~st.isRecording THEN startRecording(st) ELSE st
      counted == [begun EXCEPT !.movementCount = @ + 1]
      sampled ==
        IF Len(counted.mouseMovements) < configuration.MAX_MOVEMENTS
          THEN [counted EXCEPT !.mouseMovements =
                  Append(@, [timestamp |-> clock - counted.recordingStartTime])]
          ELSE counted
  IN  IF sampled.movementCount % UPDATE_EVERY = 0
        THEN sendPixelRequest(sampled, "mouse-movement-update", EmptyObject)
        ELSE sampled

handleMouseClick(st) ==
  LET begun == IF ~st.isRecording THEN startRecording(st) ELSE st
  IN  sendPixelRequest(begun, "mouse-click", EmptyObject)

handleScroll(st) ==
  LET begun == IF ~st.isRecording THEN startRecording(st) ELSE st
  IN  sendPixelRequest(begun, "scroll", EmptyObject)

\* the variables after a handler that leaves the script in state st
Detects(st) ==
  /\ detector' = [isRecording |-> st.isRecording,
                  recordingStartTime |-> st.recordingStartTime,
                  lastPixelRequest |-> st.lastPixelRequest,
                  movementCount |-> st.movementCount,
                  mouseMovements |-> st.mouseMovements]
  /\ timeouts' = st.timeouts
  /\ pixelRequests' = st.pixelRequests
  /\ UNCHANGED <<configuration, listening, clock, requested, typeErrors>>
  /\ UNCHANGED <<dispatchVars, recorderVars, pixelScriptVars, libraryVars>>

\* lines 673-677: each setter assigns to a binding declared with const, which
\* throws a TypeError and leaves the binding as it was
SetConstant(name) ==
  /\ typeErrors < MaxSetterCalls
  /\ \E value \in SETTER_VALUES[name] :
       requested' = [requested EXCEPT ![name] = {value}]
  /\ typeErrors' = typeErrors + 1
  /\ UNCHANGED <<configuration, detector, listening, clock, timeouts, pixelRequests>>
  /\ UNCHANGED <<dispatchVars, recorderVars, pixelScriptVars, libraryVars>>

setPixelUrl == SetConstant("PIXEL_URL")
setRecordingDuration == SetConstant("RECORDING_DURATION")
setThrottleInterval == SetConstant("THROTTLE_INTERVAL")
setMaxMovements == SetConstant("MAX_MOVEMENTS")

StandaloneMouseMove ==
  /\ listening
  /\ detector.movementCount < MaxCount
  /\ \E st \in {handleMove(Detector)} : Detects(st)

StandaloneClick ==
  /\ listening
  /\ \E st \in {handleMouseClick(Detector)} : Detects(st)

StandaloneScroll ==
  /\ listening
  /\ \E st \in {handleScroll(Detector)} : Detects(st)

\* BILDIT_MOUSE_DETECTION_CONFIG.startRecording() and .stopRecording()
StandaloneStart == \E st \in {startRecording(Detector)} : Detects(st)
StandaloneStop == \E st \in {stopRecording(Detector)} : Detects(st)

StandaloneTimeout ==
  \E timeout \in timeouts :
    /\ clock >= timeout.due
    /\ \E st \in {stopRecording([Detector EXCEPT !.timeouts = @ \ {timeout}])} :
         Detects(st)

\* window.BILDIT_MOUSE_DETECTION_CLEANUP()
cleanup ==
  /\ listening
  /\ listening' = FALSE
  /\ UNCHANGED <<configuration, detector, clock, timeouts, pixelRequests,
                 requested, typeErrors>>
  /\ UNCHANGED <<dispatchVars, recorderVars, pixelScriptVars, libraryVars>>

StandaloneTick ==
  /\ clock < LoadTime + MaxClock
  /\ clock' = clock + 1
  /\ UNCHANGED <<configuration, detector, listening, timeouts, pixelRequests,
                 requested, typeErrors>>
  /\ UNCHANGED <<dispatchVars, recorderVars, pixelScriptVars, libraryVars>>

\* the state once initialize() has run: listeners registered, init request sent
StandaloneInit ==
  /\ configuration = CONFIGURATION
  /\ clock = LoadTime
  /\ listening = TRUE
  /\ timeouts = {}
  /\ requested = [name \in DOMAIN CONFIGURATION |-> {}]
  /\ typeErrors = 0
  /\ detector = [isRecording |-> FALSE, recordingStartTime |-> 0,
                 lastPixelRequest |-> LoadTime, movementCount |-> 0,
                 mouseMovements |-> <<>>]
  /\ pixelRequests = <<[source |-> "mouse-detection-init", url |-> CONFIGURATION.PIXEL_URL,
                        ts |-> LoadTime, extra |-> EmptyObject,
                        asked |-> [name \in DOMAIN CONFIGURATION |-> {}]]>>

StandaloneNext ==
  \/ setPixelUrl \/ setRecordingDuration \/ setThrottleInterval \/ setMaxMovements
  \/ StandaloneMouseMove \/ StandaloneClick \/ StandaloneScroll
  \/ StandaloneStart \/ StandaloneStop \/ StandaloneTimeout
  \/ cleanup \/ StandaloneTick

Init == DispatchInit /\ RecorderInit /\ PixelScriptInit /\ LibraryInit /\ StandaloneInit

Next == Call \/ Respond \/ Fail

\* the dispatcher serving one call
Spec == Init /\ [][Next]_vars

\* the recorder script on one page
SpecRecorder == Init /\ [][RecorderNext]_vars

\* The recorder while the clock of the page runs and the event loop runs
\* every callback of setTimeout once its delay has passed.  The clock of the
\* model stops at LoadTime + MaxTime, so a session opens only while the clock
\* can still reach its timer.
OpensInTime == isRecording \/ now + DURATION <= LoadTime + MaxTime

RecorderFairNext ==
  \/ OpensInTime /\ MouseMove
  \/ OpensInTime /\ Click
  \/ OpensInTime /\ Scroll
  \/ TimerFires
  \/ OpensInTime /\ ManualStart
  \/ ManualStop
  \/ Tick

SpecRecorderFair ==
  Init /\ [][RecorderFairNext]_vars /\ WF_vars(Tick) /\ WF_vars(TimerFires)

\* the script of buildPixelInlineScript on one page
SpecPixelScript == Init /\ [][PixelScriptNext]_vars

\* calls of the helpers
SpecLibrary == Init /\ [][LibraryNext]_vars

\* the standalone mouse-detection script on one page
SpecStandalone == Init /\ [][StandaloneNext]_vars

\* ------------------------------------------------------------------------
\* Properties of the dispatcher
\* ------------------------------------------------------------------------

\* a call was made
Called == pc # "idle"
\* the call built the URL of the beacon
Dispatched == url # NoURL
\* the value of a query parameter of the dispatched URL, Undefined if absent
SentParam(k) == Get(url.searchParams, k)
\* the caller's params hold a value other than null/undefined under k
CallerSupplied(k) ==
  /\ "obj" \in DOMAIN options.params
  /\ k \in DOMAIN options.params.obj
  /\ ~IsNullish(options.params.obj[k])
CallerValue(k) == ToJSString(options.params.obj[k])
CallerNamed(k) == "obj" \in DOMAIN options.params /\ k \in DOMAIN options.params.obj
\* the header the caller sent under exactly this spelling, Undefined if none
HeaderSent(key) ==
  LET es == HeadersLike(request, options).entries
      hit == {i \in 1..Len(es) : es[i].key = key}
  IN  IF hit = {} THEN Undefined
      ELSE HeaderValueOf(es[CHOOSE i \in hit : TRUE].value)

\* C1: with requireBotMatch true, force false and no signature found for the
\* resolved user agent (an absent user agent included), the call returns
\* {triggered: false, skipped: true, reason: 'non-bot-user-agent'} and fetch
\* is not invoked during the call.
C1_SkipsNonBotUserAgent ==
  (Called /\ options.requireBotMatch /\ ~options.force
     /\ CLASSIFIED[userAgent] = Null)
    => /\ pc = "returned"
       /\ result.triggered = FALSE
       /\ result.skipped = TRUE
       /\ result.reason = "non-bot-user-agent"
       /\ fetchCalls = <<>>

\* an ordinary browser was skipped
C1_Witness ==
  /\ pc = "returned"
  /\ options.requireBotMatch /\ ~options.force
  /\ userAgent = "Mozilla/5.0 (ordinary browser)"
  /\ result.reason = "non-bot-user-agent"
  /\ fetchCalls = <<>>

\* C2: with force true, or requireBotMatch false, the call is never skipped
\* with reason 'non-bot-user-agent', and when fetch is available a network
\* call is attempted, whatever the classifier returned.
C2_ForceBypassesSkip ==
  (Called /\ (options.force \/ ~options.requireBotMatch))
    => /\ ~(pc = "returned" /\ "reason" \in DOMAIN result
              /\ result.reason = "non-bot-user-agent")
       /\ fetchAvailable => Len(fetchCalls) >= 1

\* C3: the promise returned by trackAIBotRequestForPixel never rejects, for
\* any request and any options (any pixelUrl included).
C3_NeverRejects == pc # "rejected"

\* C4: every returned result is exactly one of the three variants
\* triggered-success (triggered true, status and ok present, no skipped, no
\* error), skipped (triggered false, skipped true, reason present, no error,
\* no status) and errored (triggered false, error present, no skipped, no
\* status).
IsVariant(r, v) ==
  CASE v = "triggered-success" ->
         /\ r.triggered = TRUE
         /\ {"status", "ok"} \subseteq DOMAIN r
         /\ {"skipped", "error"} \cap DOMAIN r = {}
    [] v = "skipped" ->
         /\ r.triggered = FALSE
         /\ {"skipped", "reason"} \subseteq DOMAIN r
         /\ r.skipped = TRUE
         /\ {"error", "status"} \cap DOMAIN r = {}
    [] v = "errored" ->
         /\ r.triggered = FALSE
         /\ "error" \in DOMAIN r
         /\ {"skipped", "status"} \cap DOMAIN r = {}

C4_ClosedResultVariant ==
  pc = "returned"
    => Cardinality({v \in {"triggered-success", "skipped", "errored"} :
                      IsVariant(result, v)}) = 1

\* a failed fetch returned the errored variant
C4_Witness ==
  /\ pc = "returned"
  /\ IsVariant(result, "errored")
  /\ result.error = "network down"

\* C5: the site parameter is that of the first source that succeeds among
\* (a) the caller's site param, (b) the origin of the referer, (c) the origin
\* of request.url, (d) x-forwarded-proto://x-forwarded-host, (e) https://Host;
\* a source that is present but fails is passed over, and site is omitted
\* only when all five fail.
SiteByChain ==
  LET explicit == IF CallerSupplied("site") THEN CallerValue("site") ELSE Undefined
      fromReferer ==
        IF Truthy(referer) /\ URLParses(referer) THEN URLOrigin(referer) ELSE Undefined
      fromRequest ==
        IF request.defined /\ request.url # Undefined /\ URLParses(request.url)
          THEN URLOrigin(request.url) ELSE Undefined
      fromForwarded ==
        IF Truthy(HeaderSent("X-Forwarded-Host"))
          THEN OrElse(HeaderSent("X-Forwarded-Proto"), "https") \o "://"
                 \o HeaderSent("X-Forwarded-Host")
          ELSE Undefined
      fromHost ==
        IF Truthy(HeaderSent("Host")) THEN "https://" \o HeaderSent("Host")
        ELSE Undefined
      first == OrElse(explicit, OrElse(fromReferer, OrElse(fromRequest,
                 OrElse(fromForwarded, fromHost))))
  IN  \* an empty site param of the caller counts as a source that fails
      IF Truthy(first) THEN first ELSE explicit

C5_SiteFallbackChain == Dispatched => SentParam("site") = SiteByChain

\* C6: in a dispatch with no explicit site param, no referer and no
\* request.url, x-forwarded-host = H gives site = P://H with P the
\* x-forwarded-proto header or https when that header is absent; the Host
\* header gives site = https://Host only when x-forwarded-host is absent.
C6_ForwardedHostBeforeHost ==
  (Dispatched /\ ~CallerNamed("site") /\ ~Truthy(referer)
     /\ (request.defined => request.url = Undefined))
    => SentParam("site") =
         (IF Truthy(HeaderSent("X-Forwarded-Host"))
            THEN OrElse(HeaderSent("X-Forwarded-Proto"), "https") \o "://"
                   \o HeaderSent("X-Forwarded-Host")
          ELSE IF Truthy(HeaderSent("Host")) THEN "https://" \o HeaderSent("Host")
          ELSE Undefined)

\* both headers were sent and the forwarded pair won
C6_Witness ==
  /\ Dispatched /\ ~CallerNamed("site") /\ ~Truthy(referer)
  /\ request.defined /\ request.url = Undefined
  /\ HeaderSent("Host") = "host.example"
  /\ SentParam("site") = "http://xf.example"

\* C7 as stated: for each key among component, framework, source, mode,
\* event, ts, nonce, ua, referer, bot and site, a caller's value other than
\* null/undefined is the value the dispatched URL carries for that key.
C7_CallerValuesKept ==
  Dispatched =>
    \A k \in FILLED_KEYS : CallerSupplied(k) => SentParam(k) = CallerValue(k)

\* C7: for each of those keys, a caller's value other than null/undefined
\* whose string form is not empty is the value the dispatched URL carries for
\* that key; an empty string is kept for component, framework and source.
C7_NonEmptyCallerValuesKept ==
  Dispatched =>
    \A k \in FILLED_KEYS :
      (CallerSupplied(k)
         /\ (CallerValue(k) # "" \/ k \in {"component", "framework", "source"}))
        => SentParam(k) = CallerValue(k)

\* the caller's bot value was sent although a signature matched
C7_Witness ==
  /\ Dispatched
  /\ botSignature # Null
  /\ CallerSupplied("bot")
  /\ SentParam("bot") = "caller"

MATCHING ==
  [ua \in DOMAIN CHARS |->
     {i \in 1..Len(AI_BOT_SIGNATURES) : RegExpTest(AI_BOT_SIGNATURES[i].pattern, ua)}]

C9_FirstMatchingSignature ==
  Called =>
    /\ IF ~Truthy(userAgent) \/ MATCHING[userAgent] = {}
         THEN botSignature = Null
         ELSE botSignature =
                AI_BOT_SIGNATURES[CHOOSE i \in MATCHING[userAgent] :
                                    \A j \in MATCHING[userAgent] : i <= j]
    /\ (botSignature # Null /\ botSignature.slug = "generic-ai")
         => MATCHING[userAgent] = {Len(AI_BOT_SIGNATURES)}

\* a user agent matching a vendor signature and generic-ai got the vendor's
C9_Witness ==
  /\ Called
  /\ userAgent = "LLM ClaudeBot"
  /\ Cardinality(MATCHING[userAgent]) = 2
  /\ botSignature.slug = "anthropic-claudebot"

\* ------------------------------------------------------------------------
\* Properties of the recorder
\* ------------------------------------------------------------------------

\* C10: any two beacons sent by send(), of any event types, are at least
\* THROTTLE ms apart.
C10_BeaconsThrottled ==
  \A i, j \in 1..Len(beacons) : i < j => beacons[j].ts - beacons[i].ts >= THROTTLE

\* a click was sent exactly THROTTLE ms after mouse-init, in a session whose
\* mouse-start fell inside the throttle window and was dropped
C10_Witness ==
  \E i \in 2..Len(beacons) :
    /\ beacons[i].event = "mouse-click"
    /\ beacons[i].ts - beacons[i - 1].ts = THROTTLE
    /\ beacons[i - 1].event = "mouse-init"
    /\ beacons[i].session = 1

\* the beacon sent last
LastBeacon == beacons[Len(beacons)]
\* this step sent a beacon
BeaconSent == Len(beacons') > Len(beacons)

C12_StartBeaconFirst ==
  \A j \in 1..Len(beacons) :
    beacons[j].event \in {"mouse-update", "mouse-click", "scroll"}
      => \E i \in 1..(j - 1) :
           /\ beacons[i].event = "mouse-start"
           /\ beacons[i].session = beacons[j].session

\* C13: when the stop timer of a session fires DURATION ms after it was set
\* and ends a session, a mouse-end beacon is sent at that moment, DURATION ms
\* after that session's start.
C13_EndBeaconAfterDuration ==
  [][(isRecording /\ ~isRecording' /\ \E timer \in timers \ timers' : timer.due = now)
       => /\ BeaconSent
          /\ beacons'[Len(beacons')].event = "mouse-end"
          /\ beacons'[Len(beacons')].ts = startTime + DURATION]_vars

\* ------------------------------------------------------------------------
\* Properties of the script of buildPixelInlineScript
\* ------------------------------------------------------------------------

\* the places of the attempts log that hold a beacon of this event
AttemptsOf(log, event) == {i \in 1..Len(log) : log[i].event = event}

\* C14: the mouse beacon is sent on the first mousemove delivered to the
\* script's listener and never again: that step sends exactly that beacon,
\* sets the mouseTracked latch and removes the listener, and a mousemove
\* while no listener is registered sends nothing.
C14_MouseBeaconOnce ==
  [][/\ Cardinality(AttemptsOf(attempts', "mouse")) <= 1
     /\ (moves' # moves /\ "mousemove" \in listeners)
          => /\ AttemptsOf(attempts, "mouse") = {}
             /\ attempts' = Append(attempts, attempts'[Len(attempts')])
             /\ attempts'[Len(attempts')].event = "mouse"
             /\ mouseTracked'
             /\ "mousemove" \notin listeners'
     /\ (moves' # moves /\ "mousemove" \notin listeners)
          => attempts' = attempts]_vars

\* three mousemove events, one mouse beacon
C14_Witness ==
  /\ moves = MaxMoves
  /\ Cardinality(AttemptsOf(attempts, "mouse")) = 1
  /\ mouseTracked
  /\ "mousemove" \notin listeners

\* C15: the bootstrap beacon is attempted before the render image is made,
\* whether the render was deferred to DOMContentLoaded or immediate, and at
\* most one render image is made and appended.
C15_BootstrapBeforeRender ==
  /\ \A j \in AttemptsOf(attempts, "render") :
       \E i \in AttemptsOf(attempts, "bootstrap") : i < j
  /\ Cardinality(AttemptsOf(attempts, "render")) <= 1
  /\ appended <= 1

\* a render deferred to DOMContentLoaded came after bootstrap and a mouse
\* beacon
C15_Witness ==
  /\ Len(attempts) = 3
  /\ attempts[1].event = "bootstrap"
  /\ attempts[2].event = "mouse"
  /\ attempts[3].event = "render"
  /\ appended = 1

\* C16: no exception of the script's own code reaches the host page, from
\* the synchronous setup or from a later callback.
C16_NothingEscapes == uncaught = 0

\* ------------------------------------------------------------------------
\* Properties of surface selection and of the normalizer
\* ------------------------------------------------------------------------

NoDuplicates(list) == Cardinality(Elements(list)) = Len(list)
SURFACES == {"img", "iframe", "noscript", "script"}
RECOGNIZED == {"auto", "server", "image", "img", "iframe", "noscript", "script"}

\* C17: getModes gives exactly the four surfaces for undefined, a falsy
\* value, 'auto', 'server' and the empty list, exactly {img} for 'image',
\* 'img' and ['image'], exactly the surface for a single surface token, and
\* never a list with duplicates.
C17_GetModesDefaults ==
  callee = "getModes" =>
    /\ argument \in {Token(Undefined), Token(NullToken), Token(""), Token("auto"),
                     Token("server"), Array(<<>>)}
         => /\ IsArray(returned)
            /\ Elements(returned.array) = SURFACES
            /\ Len(returned.array) = 4
    /\ argument \in {Token("image"), Token("img"), Array(<<"image">>)}
         => returned = Array(<<"img">>)
    /\ \A surface \in SURFACES :
         argument = Token(surface) => returned = Array(<<surface>>)
    /\ IsArray(argument) => IsArray(returned) /\ NoDuplicates(returned.array)

\* two spellings of the image surface in one list gave img once
C17_Witness ==
  /\ callee = "getModes"
  /\ argument = Array(<<"img", "image">>)
  /\ returned = Array(<<"img">>)

\* C18: resolveModeWithoutScript always gives a non-empty list without
\* duplicates of surfaces among img, iframe and noscript, never script, and
\* gives all three whenever no entry of the input names one of them.
C18_NeverScript ==
  callee = "resolveModeWithoutScript" =>
    /\ IsArray(returned)
    /\ Len(returned.array) > 0
    /\ NoDuplicates(returned.array)
    /\ Elements(returned.array) \subseteq {"img", "iframe", "noscript"}
    /\ (LET entries == IF IsArray(argument) THEN Elements(argument.array)
                       ELSE {argument.token}
        IN  entries \cap (RECOGNIZED \ {"script"}) = {})
         => returned = Array(<<"img", "iframe", "noscript">>)
    /\ argument \in {Token("script"), Array(<<"script">>), Array(<<"bogus">>)}
         => returned = Array(<<"img", "iframe", "noscript">>)

\* script next to a surface was dropped and the surface kept
C18_Witness ==
  /\ callee = "resolveModeWithoutScript"
  /\ argument = Array(<<"script", "iframe">>)
  /\ returned = Array(<<"iframe">>)

\* C19: for a string token that is none of auto, server, image, img, iframe,
\* noscript and script, getModes(token) is the full default list; getModes of
\* a list drops such tokens, gives the full list if nothing remains, and every
\* element of the result is one of the four surfaces.
C19_UnrecognizedTokensIgnored ==
  callee = "getModes" =>
    /\ ("token" \in DOMAIN argument
          /\ argument.token \notin RECOGNIZED \cup {Undefined, NullToken})
         => returned = Array(SURFACE_KEYS)
    /\ IsArray(argument)
         => /\ IsArray(returned)
            /\ Elements(returned.array) \subseteq SURFACES
            /\ Elements(argument.array) \cap RECOGNIZED = {}
                 => returned = Array(SURFACE_KEYS)

\* what String(value) is for the scalars of the model
STRING_OF ==
  JStr("spring") :> "spring" @@ JStr("") :> "" @@ JNum(0) :> "0"
    @@ JNum(-12) :> "-12" @@ JBool(TRUE) :> "true" @@ JBool(FALSE) :> "false"

\* C20: for undefined, null and any mapping of string, number, boolean, null
\* and undefined values, normalizePixelParams returns a mapping whose keys are
\* exactly the input keys holding a value other than null/undefined, each with
\* String(value), and nothing else.
C20_NormalizerTotal ==
  callee = "normalizePixelParams" =>
    LET given == IF IsNullish(argument) THEN EmptyObject ELSE argument.obj
        kept == {k \in DOMAIN given : given[k] \notin {JNull, JUndef}}
    IN  /\ DOMAIN returned.object = kept
        /\ \A k \in kept : returned.object[k] = STRING_OF[given[k]]

\* a mapping with a nullish and a falsy value: one dropped, one stringified
C20_Witness ==
  /\ callee = "normalizePixelParams"
  /\ argument = [obj |-> ("campaign" :> JNull @@ "n" :> JNum(0))]
  /\ returned = [object |-> ("n" :> "0")]

\* C21: every value of the mapping normalizePixelParams returns is a
\* non-empty string; no key maps to ''.
C21_NoEmptyValues ==
  callee = "normalizePixelParams" =>
    \A k \in DOMAIN returned.object : returned.object[k] # ""

\* the separators of a URL text
Separators(atoms) == {i \in 1..Len(atoms) : atoms[i] \in {"?", "&"}}

\* C22 as stated: an empty mapping gives the base unchanged; a non-empty one
\* is joined with `&` if the base holds a `?` and with `?` otherwise, and the
\* result holds exactly one more separator than the base.
C22_OneMoreSeparator ==
  callee = "buildPixelSrc" =>
    LET base == Atoms(argument.baseUrl)
    IN  IF Len(argument.params.keys) = 0 THEN returned = base
        ELSE /\ SubSeq(returned, 1, Len(base) + 1)
                  = base \o <<IF Includes(base, "?") THEN "&" ELSE "?">>
             /\ Cardinality(Separators(returned)) = Cardinality(Separators(base)) + 1

\* C22, amended: an empty mapping gives the base unchanged, with no trailing
\* `?` or `&` added; a non-empty one gives the base, then `&` if the base
\* holds a `?` and `?` otherwise, then the query, in which the entries are
\* joined by `&`: the result holds one more separator than the base for
\* every entry of the mapping.
C22_OneSeparatorPerEntry ==
  callee = "buildPixelSrc" =>
    LET base == Atoms(argument.baseUrl)
        entries == Len(argument.params.keys)
    IN  IF entries = 0 THEN returned = base
        ELSE /\ SubSeq(returned, 1, Len(base) + 1)
                  = base \o <<IF Includes(base, "?") THEN "&" ELSE "?">>
             /\ Len(returned) > Len(base) + 1
             /\ returned[Len(returned)] \notin {"?", "&"}
             /\ Cardinality(Separators(returned))
                  = Cardinality(Separators(base)) + entries

\* a base with a query of its own and a mapping of two entries, one value
\* holding reserved characters
C22_Witness ==
  /\ callee = "buildPixelSrc"
  /\ argument.baseUrl = "/p?v=1"
  /\ argument.params.keys = <<"campaign", "a&b">>
  /\ returned = <<"/p", "?", "v", "=", "1", "&", "campaign", "=", "spring",
                  "&", "a", "%26", "b", "=", "x", "+", "y", "%3D", "z">>

\* the call C23 describes
C23_Call ==
  /\ callee = "BILDITAIPixel"
  /\ argument = [pixelUrl |-> "https://ai-pixel.example/pixel.gif",
                 params |-> [obj |-> ("campaign" :> JStr("spring")),
                             keys |-> <<"campaign">>],
                 mode |-> Token("image")]

\* C23 as stated: with pixelUrl https://ai-pixel.example/pixel.gif, params
\* {campaign: 'spring'} and mode 'image' only the image is rendered, and its
\* src is https://ai-pixel.example/pixel.gif?campaign=spring&mode=img.
C23_OnlyCallerKeysAndMode ==
  C23_Call =>
    returned = [elements |-> <<[type |-> "img",
                  carries |-> <<"https://ai-pixel.example/pixel.gif", "?",
                                "campaign", "=", "spring", "&", "mode", "=", "img">>]>>]

\* C23, amended: that call renders only the image, and its src is
\* https://ai-pixel.example/pixel.gif?campaign=spring&component=react&source=bildit-ai-pixel&mode=img;
\* in every rendering the query holds the caller's kept keys in order, then
\* component and source where the caller gave none, then mode, last, unless
\* the caller gave a mode key, which keeps its place; the value of mode is
\* the surface's token.
C23_DefaultsBeforeMode ==
  /\ C23_Call =>
       returned = [elements |-> <<[type |-> "img",
                     carries |-> <<"https://ai-pixel.example/pixel.gif", "?",
                                   "campaign", "=", "spring", "&",
                                   "component", "=", "react", "&",
                                   "source", "=", "bildit-ai-pixel", "&",
                                   "mode", "=", "img">>]>>]
  /\ (callee = "BILDITAIPixel" /\ returned # Threw) =>
       \A i \in 1..Len(returned.elements) :
         LET element == returned.elements[i]
             given == IF IsNullish(argument.params) THEN <<>>
                      ELSE argument.params.keys
             IsKept(k) == argument.params.obj[k] \notin {JNull, JUndef}
             keys == SelectSeq(given, IsKept)
                       \o (IF "component" \in Elements(SelectSeq(given, IsKept)) THEN <<>>
                           ELSE <<"component">>)
                       \o <<"source">>
                       \o (IF "mode" \in Elements(SelectSeq(given, IsKept)) THEN <<>>
                           ELSE <<"mode">>)
             query == SubSeq(element.carries, Len(Atoms(argument.pixelUrl)) + 2,
                             Len(element.carries))
             named == {j \in 1..Len(query) : j = 1 \/ query[j - 1] = "&"}
         IN  element.type \in {"img", "iframe"} =>
               /\ Cardinality(named) = Len(keys)
               /\ \A j \in named :
                    query[j] = keys[Cardinality({n \in named : n <= j})]
               /\ \A j \in named :
                    query[j] = "mode" =>
                      SubSeq(query, j, j + 2) = <<"mode", "=", element.type>>

\* the call of the claim, rendered with the defaults in its src
C23_Witness ==
  /\ C23_Call
  /\ Len(returned.elements) = 1
  /\ Includes(returned.elements[1].carries, "component")

\* the number of times a rendering of NextBILDITAIPixel emits the beacon
\* script: next/script elements plus inline script surfaces of the inner pixel
ScriptsEmitted(rendering) ==
  Len(rendering.scripts)
    + Cardinality({i \in 1..Len(rendering.pixel.elements) :
                     rendering.pixel.elements[i].type = "script"})

\* C27: for every mode, NextBILDITAIPixel emits the beacon script exactly once,
\* through next/script, when includeScript is true and not at all when it is
\* false; the inner BILDITAIPixel never renders an inline script surface.
C27_ScriptEmittedOnce ==
  callee = "NextBILDITAIPixel" =>
    /\ returned.pixel # Threw
    /\ \A i \in 1..Len(returned.pixel.elements) :
         returned.pixel.elements[i].type \in {"img", "iframe", "noscript"}
    /\ ScriptsEmitted(returned) = IF argument.includeScript THEN 1 ELSE 0
    /\ \A i \in 1..Len(returned.scripts) : returned.scripts[i].type = "next/script"

\* a caller asking for the script surface next to the image gets the image
\* from the inner component and the script from next/script only
C27_Witness ==
  /\ callee = "NextBILDITAIPixel"
  /\ argument.mode = Array(<<"script", "img">>)
  /\ argument.includeScript
  /\ Len(returned.scripts) = 1
  /\ Len(returned.pixel.elements) = 1
  /\ returned.pixel.elements[1].type = "img"

\* C29: for an object map, a list of pairs and a getter-style container alike,
\* toHeaderValue returns the value of a header stored under any capitalisation
\* of the name, and undefined for an absent container or an absent header.
C29_CaseInsensitiveLookup ==
  callee = "toHeaderValue" =>
    LET entries == argument.headersLike.entries
        stored == {i \in 1..Len(entries) :
                     ToLowerCase(entries[i].key) = ToLowerCase(argument.name)}
    IN  returned.value = IF argument.headersLike.shape = "none" \/ stored = {}
                           THEN Undefined
                           ELSE entries[CHOOSE i \in stored : \A j \in stored : i <= j].value.str

\* the call ended with a result marked skipped
Skipped == pc = "returned" /\ "skipped" \in DOMAIN result /\ result.skipped

\* C26: an invocation of trackAIBotRequestForPixel calls fetch at most once:
\* exactly once when the call is not skipped, never when it is skipped, and
\* never again after a failure or a response that is not ok.
C26_OneFetchPerCall ==
  /\ Len(fetchCalls) <= 1
  /\ Skipped => Len(fetchCalls) = 0
  /\ (Called /\ ~Skipped) => Len(fetchCalls) = 1

\* C24: stop() while Idle changes nothing and sends nothing, stop() twice has
\* the effect of stop() once, and start() while Recording leaves the start
\* time, the counter and the samples as they are and sends no mouse-start.
C24_ControlsIdempotent ==
  /\ ~isRecording => stop(Recorder) = Recorder
  /\ stop(stop(Recorder)) = stop(Recorder)
  /\ isRecording =>
       /\ start(Recorder).startTime = startTime
       /\ start(Recorder).count = count
       /\ start(Recorder).movements = movements
       /\ start(Recorder).beacons = beacons
       /\ start(Recorder) = Recorder

\* a session under way, with movements counted and sampled, that start()
\* leaves alone and that a stop() would end with a beacon
C24_Witness ==
  /\ isRecording
  /\ now > startTime
  /\ count > 0
  /\ movements # <<>>
  /\ start(Recorder) = Recorder
  /\ Len(stop(Recorder).beacons) > Len(beacons)
  /\ stop(stop(Recorder)) = stop(Recorder)

\* C25: a mouse-end beacon carries the elapsed duration, the number of
\* movements counted in the session, those past the sample cap included, and
\* at most the first 5 samples.
C25_EndBeaconTotals ==
  [][(BeaconSent /\ LastBeacon'.event = "mouse-end") =>
       /\ LastBeacon'.extra.dur = NatToString(now - startTime)
       /\ LastBeacon'.extra.moves = NatToString(count)
       /\ LastBeacon'.extra.data.json
            = SubSeq(movements, 1, Min(5, Len(movements)))]_vars

\* C30: at most one stop timer is pending at any moment, and a timer ends a
\* session only once the session has lasted DURATION: a session begun after a
\* manual stop is not ended by the timer of the session before it.
C30_OwnTimerOnly ==
  [][/\ Cardinality(timers') <= 1
     /\ (TimerFires /\ isRecording /\ ~isRecording') => now >= startTime + DURATION]_vars

\* C28: each of setRecordingDuration, setThrottleInterval, setMaxMovements
\* and setPixelUrl completes without error, and the value it was given is the
\* one the script holds and the one recordings and pixel requests made
\* afterwards use.
C28_SettersTakeEffect ==
  /\ typeErrors = 0
  /\ \A name \in DOMAIN requested :
       \A value \in requested[name] : configuration[name] = value
  /\ \A i \in 1..Len(pixelRequests) :
       LET sent == pixelRequests[i]
       IN  /\ \A value \in sent.asked.PIXEL_URL : sent.url = value
           /\ sent.source = "mouse-detection-start" =>
                \A value \in sent.asked.RECORDING_DURATION :
                  sent.extra.recordingDuration = value

\* ------------------------------------------------------------------------
\* Further properties of the recorder script
\* ------------------------------------------------------------------------

\* C31: a click handled by onClick results in a mouse-click beacon and a
\* scroll handled by onScroll in a scroll beacon, unless a beacon was sent
\* less than THROTTLE ms before the event; the click or scroll that moves the
\* recorder from Idle to Recording is no exception.
C31_EventBeaconUnlessThrottled ==
  [][/\ (Click /\ now - lastPing >= THROTTLE)
          => \E i \in (Len(beacons) + 1)..Len(beacons') :
               beacons'[i].event = "mouse-click" /\ beacons'[i].ts = now
     /\ (Scroll /\ now - lastPing >= THROTTLE)
          => \E i \in (Len(beacons) + 1)..Len(beacons') :
               beacons'[i].event = "scroll" /\ beacons'[i].ts = now]_vars

\* C32: the sample buffer never holds more than MAX samples nor more than the
\* movement counter says; it holds the first min(counter, MAX) movements of
\* the session in arrival order: a movement is appended while there is room,
\* none is ever evicted, and a movement past the cap is still counted.
C32_SamplesCapped ==
  [][/\ Len(movements') <= MAX
     /\ Len(movements') <= count'
     /\ Len(movements') = Min(count', MAX)
     /\ MouseMove =>
          LET kept == IF isRecording THEN movements ELSE <<>>
              counted == IF isRecording THEN count ELSE 0
          IN  /\ count' = counted + 1
              /\ movements' = IF Len(kept) < MAX
                                THEN Append(kept, [x |-> 1, y |-> 1,
                                                   t |-> now - startTime'])
                                ELSE kept]_vars

\* a session that has counted more movements than the buffer holds
C32_Witness ==
  /\ isRecording
  /\ count > MAX
  /\ Len(movements) = MAX

\* C33: a mousemove, click or scroll handled while Idle opens a new session:
\* the recorder is Recording afterwards, the counter and the buffer were reset
\* before the event itself was processed (so they hold that event alone, if
\* it is a movement, and nothing otherwise).  The timer's stop leaves the
\* recorder Idle.  Within a session the buffer only grows, and a mouse-end
\* beacon reports the session that is ending: its sample count and its
\* samples are those of the buffer at that moment, so nothing of an earlier
\* session reaches the mouse-end of a later one.
C33_SessionsAreFresh ==
  [][/\ ((MouseMove \/ Click \/ Scroll) /\ ~isRecording)
          => (isRecording' /\ session' = session + 1)
     /\ session' # session
          => /\ ~isRecording /\ isRecording'
             /\ session' = session + 1
             /\ startTime' = now
             /\ IF MouseMove
                  THEN count' = 1 /\ movements' = <<[x |-> 1, y |-> 1, t |-> 0]>>
                  ELSE count' = 0 /\ movements' = <<>>
     /\ session' = session
          => /\ count' >= count
             /\ Len(movements') >= Len(movements)
             /\ SubSeq(movements', 1, Len(movements)) = movements
     /\ TimerFires => ~isRecording'
     /\ \A i \in (Len(beacons) + 1)..Len(beacons') :
          beacons'[i].event = "mouse-end"
            => /\ isRecording /\ ~isRecording'
               /\ beacons'[i].session = session
               /\ beacons'[i].extra.moves = NatToString(Len(movements))
               /\ beacons'[i].extra.dur = NatToString(now - startTime)
               /\ beacons'[i].extra.data.json =
                    SubSeq(movements, 1, Min(SUMMARY_SIZE, Len(movements)))]_vars

\* a second session opened by a click or scroll, with nothing recorded yet,
\* after the timer ended a first session whose mouse-end reported a movement
C33_Witness ==
  /\ isRecording
  /\ session = 2
  /\ count = 0
  /\ movements = <<>>
  /\ \A timer \in timers : timer.session = 2
  /\ \E i \in 1..Len(beacons) :
       /\ beacons[i].event = "mouse-end"
       /\ beacons[i].session = 1
       /\ beacons[i].extra.moves # "0"

\* ------------------------------------------------------------------------
\* Further properties of the components
\* ------------------------------------------------------------------------

\* the entries of the query the component appends to pixelUrl in the URL an
\* element carries, as <<key, value>> pairs in order; `separator` is & in an
\* attribute of the element tree and &amp; in the markup of noscript
QueryEntries(carries, pixelUrl, separator) ==
  LET query == SubSeq(carries, Len(Atoms(pixelUrl)) + 2, Len(carries))
      IsStart(j) == j = 1 \/ query[j - 1] = separator
      Value(j) == IF j + 2 <= Len(query) /\ query[j + 2] # separator
                    THEN query[j + 2] ELSE ""
      Entries[j \in 0..Len(query)] ==
        IF j = 0 THEN <<>>
        ELSE IF IsStart(j) THEN Append(Entries[j - 1], <<query[j], Value(j)>>)
        ELSE Entries[j - 1]
  IN  Entries[Len(query)]

\* C34: every URL of an img, iframe or noscript surface of BILDITAIPixel
\* carries exactly one mode parameter, whose value is the surface's token, and
\* otherwise exactly the caller's params as normalized (null and undefined
\* dropped, the rest as strings) with component and source defaulted; a mode
\* key of the caller is overwritten by the token, never duplicated.
C34_OneModePerSurface ==
  (callee = "BILDITAIPixel" /\ returned # Threw) =>
    \A i \in 1..Len(returned.elements) :
      LET element == returned.elements[i]
          given == IF IsNullish(argument.params) THEN {}
                   ELSE {k \in DOMAIN argument.params.obj :
                           argument.params.obj[k] \notin {JNull, JUndef}}
          Expected(k) ==
            IF k = "mode" THEN element.type
            ELSE IF k \in given /\ ToJSString(argument.params.obj[k]) # ""
              THEN ToJSString(argument.params.obj[k])
            ELSE IF k = "component" THEN "react"
            ELSE IF k = "source" THEN "bildit-ai-pixel"
            ELSE ""
          entries == QueryEntries(element.carries, argument.pixelUrl,
                                  IF element.type = "noscript" THEN "&amp;" ELSE "&")
      IN  element.type \in {"img", "iframe", "noscript"} =>
            /\ Cardinality({j \in 1..Len(entries) : entries[j][1] = "mode"}) = 1
            /\ Len(entries) = Cardinality(given \cup {"component", "source", "mode"})
            /\ {entries[j][1] : j \in 1..Len(entries)}
                 = given \cup {"component", "source", "mode"}
            /\ \A j \in 1..Len(entries) : entries[j][2] = Expected(entries[j][1])

\* a rendering of all the surfaces for a caller whose params name mode
C34_Witness ==
  /\ callee = "BILDITAIPixel"
  /\ argument.mode = Token("auto")
  /\ argument.params # JUndef
  /\ argument.params.keys = <<"mode", "campaign">>
  /\ argument.params.obj["mode"] = JStr("spring")
  /\ returned # Threw
  /\ Len(returned.elements) = 4
  /\ returned.elements[3].type = "noscript"
  /\ Includes(returned.elements[3].carries, "&amp;")

\* ------------------------------------------------------------------------
\* Further properties of the pixel script
\* ------------------------------------------------------------------------

\* C35: a bootstrap or mouse beacon of the pixel script goes through fetch
\* when fetch is a function and does not throw, and otherwise through an
\* Image with the same URL; never through both; a transport that is missing
\* or throws is swallowed: sendBeacon raises nothing, so the mouse callback
\* ends without an exception and the script body logs an error only when the
\* render image fails.
C35_OneTransport ==
  [][/\ \A i \in (Len(attempts) + 1)..Len(attempts') :
          attempts'[i].event \in {"bootstrap", "mouse"} =>
            /\ Len(attempts'[i].via) <= 1
            /\ attempts'[i].via =
                 IF env'.fetch = "works" THEN <<"fetch">>
                 ELSE IF env'.image = "works" THEN <<"image">>
                 ELSE <<>>
     /\ uncaught' # uncaught => DOMContentLoaded
     /\ logged' # logged => (Run /\ readyState # "loading" /\ env'.image = "throws")
     /\ (Run /\ (readyState = "loading" \/ env'.image = "works"))
          => "mousemove" \in listeners']_vars

\* a page whose fetch throws: the bootstrap and the mouse beacon both went
\* through an Image
C35_Witness ==
  /\ env.fetch = "throws"
  /\ \E i \in AttemptsOf(attempts, "bootstrap") : attempts[i].via = <<"image">>
  /\ \E i \in AttemptsOf(attempts, "mouse") : attempts[i].via = <<"image">>

\* ------------------------------------------------------------------------
\* Termination of a recording session
\* ------------------------------------------------------------------------

C37_BotEchoed ==
  "url" \in DOMAIN result =>
    /\ IF "bot" \in DOMAIN url.searchParams
         THEN result.bot = SentParam("bot")
         ELSE result.bot = Undefined
    /\ botSignature = Null =>
         (result.bot = Undefined /\ "bot" \notin DOMAIN url.searchParams)

\* C37, amended: whenever the result contains a url, its bot field is the slug
\* of the matched signature, absent when none matched.  The bot query
\* parameter of the url equals it, and is absent with it, when the caller's
\* params hold no bot value; a caller's bot value whose string form is not
\* empty is what the url carries instead, and an empty one is carried when no
\* signature matched.
C37_BotEchoedUnlessCallerNamed ==
  "url" \in DOMAIN result =>
    /\ botSignature = Null => result.bot = Undefined
    /\ botSignature # Null => result.bot = botSignature.slug
    /\ IF CallerSupplied("bot") /\ CallerValue("bot") # ""
         THEN SentParam("bot") = CallerValue("bot")
         ELSE IF botSignature # Null
           THEN "bot" \in DOMAIN url.searchParams /\ SentParam("bot") = result.bot
         ELSE IF CallerSupplied("bot")
           THEN "bot" \in DOMAIN url.searchParams /\ SentParam("bot") = ""
         ELSE "bot" \notin DOMAIN url.searchParams

\* a request of GPTBot answered: the result and the url name the same slug
C37_Witness ==
  /\ "url" \in DOMAIN result
  /\ "triggered" \in DOMAIN result
  /\ result.triggered
  /\ ~CallerNamed("bot")
  /\ result.bot = "openai-gptbot"
  /\ SentParam("bot") = "openai-gptbot"

\* the text holds </script in some case
HoldsClosingTag(text) ==
  \E i \in 1..(Len(text) - 2) :
    text[i] = "<" /\ text[i + 1] = "/" /\ text[i + 2] \in SCRIPT_WORDS

\* C38: for every pixelUrl and param value given to buildPixelInlineScript or
\* buildMouseDetectionInlineScript, values holding <script or </script in
\* either case included, the generated text holds no </script and the cfg
\* object it evaluates to has exactly the pixelUrl and the value given.
C38_ConfigRoundTrip ==
  callee \in {"buildPixelInlineScript", "buildMouseDetectionInlineScript"} =>
    /\ ~HoldsClosingTag(returned)
    /\ Evaluated(returned) = [pixelUrl |-> argument.pixelUrl, q |-> argument.params.q]

\* C39: for every mode, the list resolveModeWithoutScript(mode) returns holds,
\* as a set, the surfaces of getModes(mode) other than script, or img, iframe
\* and noscript when there is none.
C39_SelectorsAgree ==
  callee = "resolveModeWithoutScript" =>
    LET modes == getModes(argument)
        others == IF IsArray(modes) THEN Elements(modes.array) \ {"script"} ELSE {}
    IN  /\ IsArray(modes)
        /\ Elements(returned.array) =
             IF others = {} THEN {"img", "iframe", "noscript"} ELSE others

====
